---------------------------- MODULE Spec2Model ----------------------------
(***************************************************************************)
(* Style-function expressions of mapbox-gl-js: parseExpression, the type   *)
(* checker (typeCheckExpression, matchTypeError, isGeneric), the compile   *)
(* driver and the operator registry of expression.js, and the evaluation   *)
(* context (get, asObject, rgba, evaluateCurve, findStopLessThanOrEqualTo).*)
(*                                                                         *)
(* The generated JavaScript body of a compiled expression is kept as the   *)
(* string the code builds (field js); what that body computes when the     *)
(* compiled function is called is given by Eval, operator by operator,     *)
(* from the same templates.                                                *)
(***************************************************************************)
EXTENDS Integers, Sequences, FiniteSets, TLC

VARIABLES expr, pc, compiled, output

vars == <<expr, pc, compiled, output>>

(***************************************************************************)
(* Types (types.js).  Every type is a record with a kind and a name; the   *)
(* name is the text used in diagnostics.                                   *)
(***************************************************************************)
primitive(name) == [kind |-> "primitive", name |-> name]

NullType == primitive("Null")
NumberType == primitive("Number")
StringType == primitive("String")
BooleanType == primitive("Boolean")
ColorType == primitive("Color")
ObjectType == primitive("Object")
InterpolationType == primitive("Interpolation")

typename(tn) == [kind |-> "typename", name |-> tn, typename |-> tn]

vector(itemType) ==
    [kind |-> "vector", name |-> "Vector<" \o itemType.name \o ">", itemType |-> itemType]

array(itemType, N) ==
    [kind |-> "array", name |-> "Array<" \o itemType.name \o "," \o ToString(N) \o ">",
     itemType |-> itemType, N |-> N]

anyArray(itemType) ==
    [kind |-> "any_array", name |-> "Array<" \o itemType.name \o ">", itemType |-> itemType]

RECURSIVE JoinNames(_, _)
JoinNames(types, sep) ==
    IF types = <<>> THEN ""
    ELSE IF Len(types) = 1 THEN types[1].name
    ELSE types[1].name \o sep \o JoinNames(Tail(types), sep)

variant(types) ==
    [kind |-> "variant", name |-> "(" \o JoinNames(types, " | ") \o ")", members |-> types]

nargs(types) ==
    [kind |-> "nargs", name |-> JoinNames(types, ", ") \o ", ...", types |-> types]

lambda(result, args) ==
    [kind |-> "lambda", name |-> "(" \o JoinNames(args, ", ") \o ") => " \o result.name,
     result |-> result, args |-> args]

\* Value is the one self-referential type (it has Vector<Value> as a member):
\* the record carries no member list, Members gives it.
ValueType == [kind |-> "variant", name |-> "Value", members |-> <<>>]

Members(t) ==
    IF t.name = "Value"
    THEN <<NullType, NumberType, StringType, BooleanType, ColorType, ObjectType,
           vector(ValueType)>>
    ELSE t.members

\* JavaScript's t === expected on two type objects: the primitives and Value are
\* singletons and no two types of the registry share a kind and a name.
SameType(a, b) == a.kind = b.kind /\ a.name = b.name

(***************************************************************************)
(* Typename maps: JavaScript objects from typename to type.                *)
(***************************************************************************)
EmptyMap == <<>>

Bound(map, tn) == tn \in DOMAIN map

\* util.extend(dest, src): every key of src is written to dest.
extend(dest, src) == src @@ dest

\* isGeneric(type, stack): a typename occurs in type.  The stack holds the types
\* already entered, which ends the walk through Value -> Vector<Value> -> Value.
RECURSIVE isGeneric(_, _)
isGenericSome(members, stack) ==
    \E i \in 1..Len(members) : isGeneric(members[i], stack)

isGeneric(type, stack) ==
    IF \E i \in 1..Len(stack) : SameType(stack[i], type) THEN FALSE
    ELSE IF type.kind = "typename" THEN TRUE
    ELSE IF type.kind \in {"vector", "array"}
         THEN isGeneric(type.itemType, Append(stack, type))
    ELSE IF type.kind = "variant"
         THEN isGenericSome(Members(type), Append(stack, type))
    ELSE FALSE

(***************************************************************************)
(* matchTypeError(expected, t, typenameMap): the diagnostic, or NoError    *)
(* (JavaScript null), together with the typename map as the call leaves    *)
(* it.  hasMap tells whether a map was passed.                             *)
(***************************************************************************)
NoError == ""

InvalidOutputType(expected) == "throw: " \o expected.name \o " is not a valid output type."

errorMessage(expected, t) ==
    "Expected " \o expected.name \o " but found " \o t.name \o " instead."

RECURSIVE matchTypeError(_, _, _, _)
RECURSIVE matchMembers(_, _, _, _, _)
RECURSIVE someMemberFails(_, _, _)
RECURSIVE matchMembersShared(_, _, _, _, _)

\* a member loop on one shared map: what a failed member bound stays
matchMembersShared(expected, i, t, map, hasMap) ==
    LET after(r) ==
            IF r.error = NoError THEN [error |-> NoError, map |-> r.map]
            ELSE matchMembersShared(expected, i + 1, t, r.map, hasMap)
    IN  IF i > Len(Members(expected)) THEN [error |-> "no member", map |-> map]
        ELSE after(matchTypeError(Members(expected)[i], t, map, hasMap))

\* for (const memberType of expected.members): the first member that matches
\* under a copy of the map wins and its copy is merged back.
matchMembers(expected, i, t, map, hasMap) ==
    LET after(r) ==
            IF r.error = NoError
            THEN [error |-> NoError, map |-> IF hasMap THEN extend(map, r.map) ELSE map]
            ELSE matchMembers(expected, i + 1, t, map, hasMap)
    IN  IF i > Len(Members(expected)) THEN [error |-> "no member", map |-> map]
        ELSE after(matchTypeError(Members(expected)[i], t,
                                  IF hasMap THEN extend(EmptyMap, map) ELSE EmptyMap, hasMap))

\* t.members.some(m => matchTypeError(expected, m)): each member is matched
\* without a typename map.
someMemberFails(expected, t, i) ==
    IF i > Len(Members(t)) THEN FALSE
    ELSE IF matchTypeError(expected, Members(t)[i], EmptyMap, FALSE).error # NoError THEN TRUE
    ELSE someMemberFails(expected, t, i + 1)

\* the branches on expected.kind, after the typename block
matchRest(expected, t, msg, map, hasMap) ==
    LET items(r, sizesDiffer) ==
            [error |-> IF r.error # NoError THEN msg \o ". (" \o r.error \o ")"
                       ELSE IF sizesDiffer THEN msg
                       ELSE NoError,
             map |-> r.map]
        members(r) ==
            IF r.error = NoError THEN r
            ELSE IF t.kind = "variant"
            THEN [error |-> IF someMemberFails(expected, t, 1) THEN msg ELSE NoError,
                  map |-> map]
            ELSE [error |-> msg, map |-> map]
    IN
    IF expected.kind = "primitive" THEN
        [error |-> IF SameType(t, expected) THEN NoError ELSE msg, map |-> map]
    ELSE IF expected.kind = "vector" THEN
        IF t.kind = "vector"
        THEN items(matchTypeError(expected.itemType, t.itemType, map, hasMap), FALSE)
        ELSE [error |-> msg, map |-> map]
    ELSE IF expected.kind \in {"any_array", "array"} THEN
        IF t.kind = "array"
        THEN items(matchTypeError(expected.itemType, t.itemType, map, hasMap),
                   expected.kind = "array" /\ expected.N # t.N)
        ELSE [error |-> msg, map |-> map]
    ELSE IF expected.kind = "variant" THEN
        IF SameType(t, expected) THEN [error |-> NoError, map |-> map]
        ELSE members(matchMembers(expected, 1, t, map, hasMap))
    ELSE [error |-> InvalidOutputType(expected), map |-> map]

matchTypeError(expected, t0, map, hasMap) ==
    LET \* t and the map after the block on t.kind === 'typename'
        resolved(t) ==
            IF hasMap /\ t.kind = "typename"
            THEN IF Bound(map, t.typename) THEN map[t.typename]
                 ELSE IF ~isGeneric(expected, <<>>) THEN expected
                 ELSE t
            ELSE t
        recorded(t) ==
            IF hasMap /\ t.kind = "typename" /\ ~Bound(map, t.typename)
               /\ ~isGeneric(expected, <<>>)
            THEN extend(map, t.typename :> expected)
            ELSE map
        match(t, msg) ==
            IF hasMap /\ expected.kind = "typename" THEN
                [error |-> NoError,
                 map |-> IF ~Bound(map, expected.typename) /\ ~isGeneric(t, <<>>)
                         THEN extend(map, expected.typename :> t) ELSE map]
            ELSE matchRest(expected, resolved(t), msg, recorded(t), hasMap)
    IN  match(IF t0.kind = "lambda" THEN t0.result ELSE t0, errorMessage(expected, t0))

(***************************************************************************)
(* The operator registry (expressions): the declared type of each name.    *)
(***************************************************************************)
MathConstants == {"ln2", "pi", "e"}
MathFunctions == {"log10", "ln", "log2", "sin", "cos", "tan", "asin", "acos", "atan"}
BinaryMathOps == {"+", "*", "-", "/", "%"}
ComparisonOps == {"==", "!=", ">", "<", ">=", "<="}
BooleanOps == {"&&", "||"}

OpNames ==
    MathConstants \cup MathFunctions \cup BinaryMathOps \cup ComparisonOps \cup BooleanOps
    \cup {"string", "number", "boolean", "json_array", "object", "color", "color_to_array",
          "get", "has", "at", "typeof", "length", "properties", "geometry_type", "id",
          "zoom", "^", "!", "upcase", "downcase", "concat", "rgb", "rgba", "case", "curve",
          "step", "exponential", "linear"}

defineMathConstant == lambda(NumberType, <<>>)

\* defineMathFunction(name, arity): every registered function has arity 1.
defineMathFunction == lambda(NumberType, <<NumberType>>)

defineBinaryMathOp(isAssociative) ==
    lambda(NumberType, IF isAssociative THEN <<nargs(<<NumberType>>)>>
                       ELSE <<NumberType, NumberType>>)

defineComparisonOp(isAssociative) ==
    lambda(BooleanType, IF isAssociative THEN <<nargs(<<typename("T")>>)>>
                        ELSE <<typename("T"), typename("T")>>)

defineBooleanOp == lambda(BooleanType, <<nargs(<<BooleanType>>)>>)

\* expressions[op].type.  The registry calls defineBinaryMathOp and
\* defineComparisonOp with the name only, so isAssociative is undefined (falsy).
DefinitionType(op) ==
    CASE op \in MathConstants -> defineMathConstant
      [] op \in MathFunctions -> defineMathFunction
      [] op \in BinaryMathOps -> defineBinaryMathOp(FALSE)
      [] op \in ComparisonOps -> defineComparisonOp(FALSE)
      [] op \in BooleanOps -> defineBooleanOp
      [] op = "string" -> lambda(StringType, <<ValueType>>)
      [] op = "number" -> lambda(NumberType, <<ValueType>>)
      [] op = "boolean" -> lambda(BooleanType, <<ValueType>>)
      [] op = "json_array" -> lambda(vector(ValueType), <<ValueType>>)
      [] op = "object" -> lambda(ObjectType, <<ValueType>>)
      [] op = "color" -> lambda(ColorType, <<StringType>>)
      [] op = "color_to_array" -> lambda(array(NumberType, 4), <<ColorType>>)
      [] op = "get" -> lambda(ValueType, <<ObjectType, StringType>>)
      [] op = "has" -> lambda(BooleanType, <<ObjectType, StringType>>)
      [] op = "at" -> lambda(typename("T"),
                             <<variant(<<vector(typename("T")), anyArray(typename("T"))>>),
                               NumberType>>)
      [] op = "typeof" -> lambda(StringType, <<ValueType>>)
      [] op = "length" -> lambda(NumberType, <<variant(<<vector(typename("T")), StringType>>)>>)
      [] op = "properties" -> lambda(ObjectType, <<>>)
      [] op = "geometry_type" -> lambda(StringType, <<>>)
      [] op = "id" -> lambda(ValueType, <<>>)
      [] op = "zoom" -> lambda(NumberType, <<>>)
      [] op = "^" -> lambda(NumberType, <<NumberType, NumberType>>)
      [] op = "!" -> lambda(BooleanType, <<BooleanType>>)
      [] op = "upcase" -> lambda(StringType, <<StringType>>)
      [] op = "downcase" -> lambda(StringType, <<StringType>>)
      [] op = "concat" -> lambda(StringType, <<nargs(<<ValueType>>)>>)
      [] op = "rgb" -> lambda(ColorType, <<NumberType, NumberType, NumberType>>)
      [] op = "rgba" -> lambda(ColorType, <<NumberType, NumberType, NumberType, NumberType>>)
      [] op = "case" -> lambda(typename("T"),
                               <<nargs(<<BooleanType, typename("T")>>), typename("T")>>)
      [] op = "curve" -> lambda(typename("T"),
                                <<InterpolationType, NumberType,
                                  nargs(<<NumberType, typename("T")>>)>>)
      [] op = "step" -> lambda(InterpolationType, <<>>)
      [] op = "exponential" -> lambda(InterpolationType, <<NumberType>>)
      [] op = "linear" -> lambda(InterpolationType, <<>>)

(***************************************************************************)
(* JSON-shaped inputs and literal values.                                  *)
(***************************************************************************)
Undefined == [t |-> "undefined"]
Null == [t |-> "null"]
Str(s) == [t |-> "string", s |-> s]
Num(n) == [t |-> "number", n |-> n, d |-> 1]
Bool(b) == [t |-> "boolean", b |-> b]
Obj(o) == [t |-> "object", o |-> o]
Arr(a) == [t |-> "array", a |-> a]

\* typeof expr
typeof(v) ==
    CASE v.t \in {"null", "object", "array", "color"} -> "object"
      [] v.t = "nan" -> "number"
      [] OTHER -> v.t

\* JSON.stringify of a literal value (the numbers of the model are integers).
StringifyValue(v) ==
    CASE v.t = "null" -> "null"
      [] v.t = "string" -> "\"" \o v.s \o "\""
      [] v.t = "number" -> ToString(v.n)
      [] v.t = "boolean" -> IF v.b THEN "true" ELSE "false"

(***************************************************************************)
(* parseExpression(key, expr): the typed tree with the declared types, or  *)
(* the Error it throws.                                                    *)
(***************************************************************************)
Literal(value, type, key) == [literal |-> TRUE, value |-> value, type |-> type, key |-> key]

Call(name, type, arguments, key) ==
    [literal |-> FALSE, name |-> name, type |-> type, arguments |-> arguments, key |-> key]

Parsed(node) == [thrown |-> "", node |-> node]
Throws(message) == [thrown |-> message, node |-> Literal(Null, NullType, "")]

\* `${op}` for the head of an array
OpText(a) ==
    IF a = <<>> THEN "undefined"
    ELSE IF a[1].t = "string" THEN a[1].s
    ELSE IF a[1].t = "number" THEN ToString(a[1].n)
    ELSE a[1].t

RECURSIVE parseExpression(_, _)
RECURSIVE parseArguments(_, _, _)

\* expr.slice(1).map((arg, i) => parseExpression(`${key}.${i + 1}`, arg)): the
\* first argument that throws ends the map.
parseArguments(key, a, i) ==
    IF i > Len(a) THEN [thrown |-> "", nodes |-> <<>>]
    ELSE LET first == parseExpression(key \o "." \o ToString(i - 1), a[i])
         IN  IF first.thrown # "" THEN [thrown |-> first.thrown, nodes |-> <<>>]
             ELSE LET rest == parseArguments(key, a, i + 1)
                  IN  IF rest.thrown # "" THEN rest
                      ELSE [thrown |-> "", nodes |-> <<first.node>> \o rest.nodes]

parseExpression(key, e) ==
    IF typeof(e) = "undefined" THEN Parsed(Literal(Null, NullType, key))
    ELSE IF typeof(e) = "string" THEN Parsed(Literal(e, StringType, key))
    ELSE IF typeof(e) = "number" THEN Parsed(Literal(e, NumberType, key))
    ELSE IF typeof(e) = "boolean" THEN Parsed(Literal(e, BooleanType, key))
    ELSE IF e.t # "array"
    THEN Throws(key \o ": expected an array, but found " \o typeof(e) \o " instead.")
    ELSE IF e.a = <<>> \/ e.a[1].t # "string" \/ e.a[1].s \notin OpNames
    THEN Throws(key \o ": unknown function " \o OpText(e.a))
    ELSE LET args == parseArguments(key, e.a, 2)
         IN  IF args.thrown # "" THEN Throws(args.thrown)
             ELSE Parsed(Call(e.a[1].s, DefinitionType(e.a[1].s), args.nodes, key))

(***************************************************************************)
(* serializeExpression / stringifyExpression: the tree as JSON text.       *)
(***************************************************************************)
\* literals to their values, calls to [name, ...children]
RECURSIVE serializeExpression(_)
serializeExpression(e) ==
    IF e.literal THEN e.value
    ELSE Arr(<<Str(e.name)>>
             \o [i \in 1..Len(e.arguments) |-> serializeExpression(e.arguments[i])])

RECURSIVE stringifyExpression(_)
RECURSIVE stringifyArguments(_, _)

stringifyArguments(arguments, i) ==
    IF i > Len(arguments) THEN ""
    ELSE "," \o stringifyExpression(arguments[i]) \o stringifyArguments(arguments, i + 1)

stringifyExpression(e) ==
    IF e.literal THEN StringifyValue(e.value)
    ELSE "[\"" \o e.name \o "\"" \o stringifyArguments(e.arguments, 1) \o "]"

(***************************************************************************)
(* typeCheckExpression(expected, e): the checked tree, or the diagnostics. *)
(***************************************************************************)
Diagnostic(key, error) == [key |-> key, error |-> error]

Checked(node) == [errors |-> <<>>, node |-> node]
Failed(errors) == [errors |-> errors, node |-> Literal(Null, NullType, "")]

CouldNotResolve(expectedResult, e) ==
    "Could not resolve " \o expectedResult.name
    \o ".  This expression must be wrapped in a type conversion, e.g. [\"string\", "
    \o stringifyExpression(e) \o "]."

ExpectedArguments(n, m) ==
    "Expected " \o ToString(n) \o " arguments, but found " \o ToString(m) \o " instead."

\* The while loop of an NArgs slot: consumes argument values as long as each
\* matches the next type of the slot; a full round appends the slot's types and
\* merges the round's typenames into the call's map.  vi and j are 0-based.
RECURSIVE consumeNArgs(_, _, _, _, _, _, _)
consumeNArgs(t, argValues, vi, j, curTypeNames, expandedArgTypes, typenameMap) ==
    LET consumed(r, j2) ==
            IF r.error # NoError
            THEN [vi |-> vi, j |-> j, expandedArgTypes |-> expandedArgTypes,
                  typenameMap |-> typenameMap]
            ELSE IF j2 = 0
                 THEN consumeNArgs(t, argValues, vi + 1, 0, EmptyMap,
                                   expandedArgTypes \o t.types, extend(typenameMap, r.map))
                 ELSE consumeNArgs(t, argValues, vi + 1, j2, r.map,
                                   expandedArgTypes, typenameMap)
    IN  IF vi >= Len(argValues)
        THEN [vi |-> vi, j |-> j, expandedArgTypes |-> expandedArgTypes,
              typenameMap |-> typenameMap]
        ELSE consumed(matchTypeError(t.types[j + 1], argValues[vi + 1].type, curTypeNames, TRUE),
                      (j + 1) % Len(t.types))

\* for (let vi = 0, ti = 0; vi < argValues.length && ti < expectedArgs.length; ti++)
RECURSIVE unrollArgs(_, _, _, _, _, _, _)
unrollArgs(e, expectedArgs, vi, ti, expandedArgTypes, errors, typenameMap) ==
    LET afterNArgs(c) ==
            unrollArgs(e, expectedArgs, c.vi - c.j, ti + 1, c.expandedArgTypes, errors,
                       c.typenameMap)
        single(t, r) ==
            unrollArgs(e, expectedArgs, vi + 1, ti + 1, Append(expandedArgTypes, t),
                       IF r.error # NoError
                       THEN Append(errors, Diagnostic(e.key, r.error)) ELSE errors,
                       r.map)
        unroll(t) ==
            IF t.kind = "nargs"
            THEN afterNArgs(consumeNArgs(t, e.arguments, vi, 0, EmptyMap, expandedArgTypes,
                                         typenameMap))
            ELSE single(t, matchTypeError(t, e.arguments[vi + 1].type, typenameMap, TRUE))
    IN  IF ~(vi < Len(e.arguments) /\ ti < Len(expectedArgs))
        THEN [expandedArgTypes |-> expandedArgTypes, errors |-> errors,
              typenameMap |-> typenameMap]
        ELSE unroll(expectedArgs[ti + 1])

\* the expected type of argument i: a bound typename is replaced by its binding
resolveArgType(t, typenameMap) ==
    IF t.kind = "typename" /\ Bound(typenameMap, t.typename)
    THEN typenameMap[t.typename] ELSE t

RECURSIVE typeCheckExpression(_, _)
RECURSIVE checkArgs(_, _, _, _, _, _, _)

\* for (let i = 0; i < expandedArgTypes.length; i++): i is 0-based
checkArgs(e, expandedArgTypes, typenameMap, i, errors, resolvedArgTypes, checkedArgs) ==
    LET checked(expected, result) ==
            IF result.errors # <<>>
            THEN checkArgs(e, expandedArgTypes, typenameMap, i + 1,
                           errors \o result.errors, resolvedArgTypes, checkedArgs)
            ELSE IF errors = <<>>
            THEN checkArgs(e, expandedArgTypes, typenameMap, i + 1, errors,
                           Append(resolvedArgTypes, expected), Append(checkedArgs, result.node))
            ELSE checkArgs(e, expandedArgTypes, typenameMap, i + 1, errors,
                           resolvedArgTypes, checkedArgs)
        check(expected) == checked(expected, typeCheckExpression(expected, e.arguments[i + 1]))
    IN  IF i >= Len(expandedArgTypes)
        THEN [errors |-> errors, resolvedArgTypes |-> resolvedArgTypes,
              checkedArgs |-> checkedArgs]
        ELSE check(resolveArgType(expandedArgTypes[i + 1], typenameMap))

\* a check that reports the call twice
typeCheckTwice(expected, e) ==
    Failed(<<Diagnostic(e.key, "Could not resolve."), Diagnostic(e.key, "Could not resolve.")>>)

typeCheckLambda(expected, e) ==
    LET resolved(expectedResult, c) ==
            IF c.errors # <<>> THEN Failed(c.errors)
            ELSE Checked(Call(e.name, lambda(expectedResult, c.resolvedArgTypes),
                              c.checkedArgs, e.key))
        counted(expectedResult, u, errors) ==
            IF errors # <<>> THEN Failed(errors)
            ELSE resolved(expectedResult,
                          checkArgs(e, u.expandedArgTypes, u.typenameMap, 0, <<>>, <<>>, <<>>))
        unrolled(expectedResult, u) ==
            counted(expectedResult, u,
                    IF Len(u.expandedArgTypes) # Len(e.arguments)
                    THEN Append(u.errors,
                                Diagnostic(e.key, ExpectedArguments(Len(u.expandedArgTypes),
                                                                    Len(e.arguments))))
                    ELSE u.errors)
        matched(expectedResult, expectedArgs, m) ==
            IF m.error # NoError THEN Failed(<<Diagnostic(e.key, m.error)>>)
            ELSE unrolled(expectedResult, unrollArgs(e, expectedArgs, 0, 0, <<>>, <<>>, m.map))
        lambdaOf(expectedResult, expectedArgs) ==
            IF expectedResult.kind = "typename"
            THEN Failed(<<Diagnostic(e.key, CouldNotResolve(expectedResult, e))>>)
            ELSE matched(expectedResult, expectedArgs,
                         matchTypeError(expectedResult, e.type.result, EmptyMap, TRUE))
    IN  lambdaOf(IF expected.kind = "lambda" THEN expected.result ELSE expected,
                 IF expected.kind = "lambda" THEN expected.args ELSE e.type.args)

typeCheckExpression(expected, e) ==
    LET literal(error) ==
            IF error # NoError THEN Failed(<<Diagnostic(e.key, error)>>) ELSE Checked(e)
    IN  IF e.literal THEN literal(matchTypeError(expected, e.type, EmptyMap, FALSE).error)
        ELSE typeCheckLambda(expected, e)

(***************************************************************************)
(* The compile callbacks of the registry.  A callback returns the          *)
(* JavaScript text js and, beside it, body: the same expression as a tree  *)
(* (operator, key of the node, argument bodies), which Eval interprets.    *)
(* errors are the callback's own diagnostics, thrown the exception it      *)
(* raises; isFeatureConstant and isZoomConstant are <<>> when the callback *)
(* leaves them undefined.                                                  *)
(***************************************************************************)
RECURSIVE JoinJs(_, _)
JoinJs(args, sep) ==
    IF args = <<>> THEN ""
    ELSE IF Len(args) = 1 THEN args[1].js
    ELSE args[1].js \o sep \o JoinJs(Tail(args), sep)

Bodies(args) == [i \in 1..Len(args) |-> args[i].body]

Body(e, args) == [op |-> e.name, key |-> e.key, args |-> Bodies(args)]

Js(e, args, js) ==
    [thrown |-> "", errors |-> <<>>, js |-> js, body |-> Body(e, args),
     isFeatureConstant |-> <<>>, isZoomConstant |-> <<>>]

CallbackErrors(errors) ==
    [thrown |-> "", errors |-> errors, js |-> "", body |-> [op |-> "none"],
     isFeatureConstant |-> <<>>, isZoomConstant |-> <<>>]

CallbackThrows(message) ==
    [thrown |-> message, errors |-> <<>>, js |-> "", body |-> [op |-> "none"],
     isFeatureConstant |-> <<>>, isZoomConstant |-> <<>>]

\* reading args[i].js (or .expression, .type) where args has fewer elements
UndefinedArg == "TypeError: Cannot read property of undefined"

\* a callback that reads args[0] .. args[n-1]
Reads(n, e, args, js) == IF Len(args) < n THEN CallbackThrows(UndefinedArg) ELSE Js(e, args, js)

MathName(name) == IF name = "ln" THEN "log" ELSE name

ComparisonJs(name) == IF name = "==" THEN "===" ELSE IF name = "!=" THEN "!==" ELSE name

fromContext(name, e, args) == Js(e, args, "this." \o name \o "(" \o JoinJs(args, ", ") \o ")")

\* expressions.case.compile: the pairs are spliced off two at a time and the
\* assertion wants exactly one argument left.
RECURSIVE CaseJs(_)
CaseJs(args) ==
    IF Len(args) > 1
    THEN args[1].js \o " ? " \o args[2].js \o ":" \o CaseJs(SubSeq(args, 3, Len(args)))
    ELSE args[1].js

CaseCompile(e, args) ==
    IF Len(args) % 2 = 0 THEN CallbackThrows("AssertionError: args.length === 1")
    ELSE Js(e, args, CaseJs(args))

(***************************************************************************)
(* expressions.curve.compile                                               *)
(***************************************************************************)
NotInterpolatable(type) ==
    "Type " \o type.name
    \o " is not interpolatable, and thus cannot be used as a curve's output type."

StopsNotLiteral ==
    "Input/output pairs for \"curve\" expressions must be defined using literal numeric values (not computed expressions) for the input values."

StopsNotAscending ==
    "Input/output pairs for \"curve\" expressions must be arranged with input values in strictly ascending order."

BaseNotLiteral == "Exponential interpolation base must be a literal number value."

\* for (let i = 2; (i + 1) < args.length; i += 2): i is 0-based; the result is
\* the first error, or the stops and the compiled outputs.
\* the loop without the test of the order of the stops
RECURSIVE CurveStopsUnordered(_, _, _, _)
CurveStopsUnordered(args, i, stops, outputs) ==
    IF ~(i + 1 < Len(args)) THEN [error |-> "", stops |-> stops, outputs |-> outputs]
    ELSE IF ~args[i + 1].expression.literal \/ typeof(args[i + 1].expression.value) # "number"
    THEN [error |-> StopsNotLiteral, stops |-> stops, outputs |-> outputs]
    ELSE CurveStopsUnordered(args, i + 2, Append(stops, args[i + 1].expression.value.n),
                             Append(outputs, args[i + 2]))

RECURSIVE CurveStops(_, _, _, _)
CurveStops(args, i, stops, outputs) ==
    IF ~(i + 1 < Len(args)) THEN [error |-> "", stops |-> stops, outputs |-> outputs]
    ELSE LET input == args[i + 1].expression
             stopOutput == args[i + 2]
         IN  IF ~input.literal \/ typeof(input.value) # "number"
             THEN [error |-> StopsNotLiteral, stops |-> stops, outputs |-> outputs]
             ELSE IF stops # <<>> /\ stops[Len(stops)] >= input.value.n
             THEN [error |-> StopsNotAscending, stops |-> stops, outputs |-> outputs]
             ELSE CurveStops(args, i + 2, Append(stops, input.value.n), Append(outputs, stopOutput))

RECURSIVE JoinInts(_)
JoinInts(ns) ==
    IF ns = <<>> THEN ""
    ELSE IF Len(ns) = 1 THEN ToString(ns[1])
    ELSE ToString(ns[1]) \o ", " \o JoinInts(Tail(ns))

RECURSIVE JoinThunks(_)
JoinThunks(outputs) ==
    IF outputs = <<>> THEN ""
    ELSE IF Len(outputs) = 1 THEN "() => " \o outputs[1].js
    ELSE "() => " \o outputs[1].js \o ", " \o JoinThunks(Tail(outputs))

CurveJs(input, stops, outputs, options, resultType) ==
    "(function () { var input = " \o input.js \o "; var stopInputs = [" \o JoinInts(stops)
    \o "]; var stopOutputs = [" \o JoinThunks(outputs)
    \o "]; return this.evaluateCurve(" \o input.js \o ", stopInputs, stopOutputs, "
    \o options \o ", \"" \o resultType \o "\"); }.bind(this))()"

CurveResult(e, args, s, resultType, name, base, options) ==
    [thrown |-> "", errors |-> <<>>,
     js |-> CurveJs(args[2], s.stops, s.outputs, options, resultType),
     body |-> [op |-> "evaluateCurve", key |-> e.key, args |-> <<args[2].body>>,
               stopInputs |-> s.stops, stopOutputs |-> Bodies(s.outputs),
               interpolation |-> [name |-> name, base |-> base], resultType |-> resultType],
     isFeatureConstant |-> <<>>, isZoomConstant |-> <<>>]

CurveCompile(e, args) ==
    IF Len(args) < 1 THEN CallbackThrows(UndefinedArg)
    ELSE LET interpolation == args[1].expression IN
    IF interpolation.literal THEN CallbackThrows("Error: Invalid interpolation type")
    ELSE IF Len(args) < 4 THEN CallbackThrows(UndefinedArg)
    ELSE IF ~SameType(args[4].type, NumberType) /\ ~SameType(args[4].type, ColorType)
    THEN CallbackErrors(<<NotInterpolatable(args[4].type)>>)
    ELSE LET resultType == IF SameType(args[4].type, NumberType) THEN "number" ELSE "color"
             s == CurveStops(args, 2, <<>>, <<>>)
         IN
    IF s.error # "" THEN CallbackErrors(<<s.error>>)
    ELSE IF Len(s.stops) = 1
    THEN [thrown |-> "", errors |-> <<>>, js |-> "() => " \o s.outputs[1].js,
          body |-> [op |-> "arrow", key |-> e.key, args |-> <<s.outputs[1].body>>],
          isFeatureConstant |-> <<>>, isZoomConstant |-> <<>>]
    ELSE IF interpolation.name = "exponential"
    THEN IF interpolation.arguments = <<>> THEN CallbackThrows(UndefinedArg)
         ELSE LET baseExpr == interpolation.arguments[1]
              IN  IF ~baseExpr.literal \/ typeof(baseExpr.value) # "number"
                  THEN CallbackErrors(<<BaseNotLiteral>>)
                  ELSE CurveResult(e, args, s, resultType, "exponential", baseExpr.value.n,
                                   "{\"name\":\"exponential\",\"base\":"
                                   \o ToString(baseExpr.value.n) \o "}")
    ELSE CurveResult(e, args, s, resultType, interpolation.name, 1,
                     "{\"name\":\"" \o interpolation.name \o "\"}")

(***************************************************************************)
(* expressions[name].compile(e, args)                                      *)
(***************************************************************************)
DefinitionCompile(e, args) ==
    LET name == e.name
        a(i) == args[i].js
    IN
    CASE name \in MathConstants ->
           Js(e, args, "Math." \o (CASE name = "ln2" -> "LN2" [] name = "pi" -> "PI"
                                     [] name = "e" -> "E"))
      [] name \in MathFunctions ->
           Js(e, args, "Math." \o MathName(name) \o "(" \o JoinJs(args, ", ") \o ")")
      [] name \in BinaryMathOps -> Js(e, args, JoinJs(args, name))
      [] name \in ComparisonOps ->
           IF Len(args) < 2 THEN CallbackThrows(UndefinedArg)
           ELSE [Js(e, args, a(1) \o " " \o ComparisonJs(name) \o " " \o a(2))
                 EXCEPT !.body.args = <<args[1].body, args[2].body>>]
      [] name \in BooleanOps -> Js(e, args, JoinJs(args, name))
      [] name = "string" -> Reads(1, e, args, "String(" \o a(1) \o ")")
      [] name = "number" -> Reads(1, e, args, "Number(" \o a(1) \o ")")
      [] name = "boolean" -> Reads(1, e, args, "Boolean(" \o a(1) \o ")")
      [] name = "json_array" -> fromContext("asArray", e, args)
      [] name = "object" -> fromContext("asObject", e, args)
      [] name = "color" -> fromContext("color", e, args)
      [] name = "color_to_array" -> Reads(1, e, args, a(1) \o ".value")
      [] name = "get" -> fromContext("get", e, args)
      [] name = "has" -> Reads(2, e, args, a(1) \o ".hasOwnProperty(" \o a(2) \o ")")
      [] name = "at" -> Reads(2, e, args, a(1) \o "[" \o a(2) \o "]")
      [] name = "typeof" -> fromContext("typeOf", e, args)
      [] name = "length" -> Reads(1, e, args, a(1) \o ".length")
      [] name = "properties" ->
           [Js(e, args, "this.asObject(props)") EXCEPT !.isFeatureConstant = <<FALSE>>]
      [] name = "geometry_type" ->
           [Js(e, args, "(feature.geometry || {}).type || null")
            EXCEPT !.isFeatureConstant = <<FALSE>>]
      [] name = "id" ->
           [Js(e, args, "typeof feature.id === \"undefined\" ? null : feature.id")
            EXCEPT !.isFeatureConstant = <<FALSE>>]
      [] name = "zoom" -> [Js(e, args, "mapProperties.zoom") EXCEPT !.isZoomConstant = <<FALSE>>]
      [] name = "^" -> Reads(2, e, args, "Math.pow(" \o a(1) \o ", " \o a(2) \o ")")
      [] name = "!" -> Reads(1, e, args, "!(" \o a(1) \o ")")
      [] name = "upcase" -> Reads(1, e, args, "(" \o a(1) \o ").toUpperCase()")
      [] name = "downcase" -> Reads(1, e, args, "(" \o a(1) \o ").toLowerCase()")
      [] name = "concat" -> Js(e, args, "[" \o JoinJs(args, ", ") \o "].join('')")
      [] name \in {"rgb", "rgba"} -> fromContext("rgba", e, args)
      [] name = "case" -> CaseCompile(e, args)
      [] name = "curve" -> CurveCompile(e, args)
      [] name \in {"step", "exponential", "linear"} -> Js(e, args, "void 0")

(***************************************************************************)
(* compile(expected, e): type check, compile the arguments against the     *)
(* resolved argument types, call the operator's callback.                  *)
(***************************************************************************)
NoType == [kind |-> "null", name |-> "null"]

Success(js, type, isFeatureConstant, isZoomConstant, expression, body) ==
    [result |-> "success", js |-> js, type |-> type,
     isFeatureConstant |-> isFeatureConstant, isZoomConstant |-> isZoomConstant,
     expression |-> expression, body |-> body]

Errors(errors) == [result |-> "error", errors |-> errors]

Thrown(message) == [result |-> "throw", message |-> message]

\* compiledArgs.reduce((memo, arg) => memo && arg.isFeatureConstant, true)
AllFeatureConstant(compiledArgs) ==
    \A i \in 1..Len(compiledArgs) : compiledArgs[i].isFeatureConstant

AllZoomConstant(compiledArgs) ==
    \A i \in 1..Len(compiledArgs) : compiledArgs[i].isZoomConstant

\* the flag when the operator's own value is not taken into account
OverrideDropped(flag, given) == flag

\* isFeatureConstant && compiled.isFeatureConstant when the callback set it
Override(flag, given) == IF given = <<>> THEN flag ELSE flag /\ given[1]

\* the part of compile after the arguments are compiled
compileCall(e, compiledArgs) ==
    LET c == DefinitionCompile(e, compiledArgs)
    IN  IF c.thrown # "" THEN Thrown(c.thrown)
        ELSE IF c.errors # <<>>
        THEN Errors([i \in 1..Len(c.errors) |-> Diagnostic(e.key, c.errors[i])])
        ELSE IF c.js = "" THEN Thrown("AssertionError: compiled.js")
        ELSE Success("(" \o c.js \o ")", e.type.result,
                     Override(AllFeatureConstant(compiledArgs), c.isFeatureConstant),
                     Override(AllZoomConstant(compiledArgs), c.isZoomConstant),
                     e, c.body)

RECURSIVE compile(_, _)
RECURSIVE compileArgs(_, _, _, _)

\* for (let i = 0; i < e.arguments.length; i++): i is 0-based
compileArgs(e, i, errors, compiledArgs) ==
    IF i >= Len(e.arguments)
    THEN [thrown |-> "", errors |-> errors, compiledArgs |-> compiledArgs]
    ELSE LET compiledArg == compile(e.type.args[i + 1], e.arguments[i + 1])
         IN  IF compiledArg.result = "throw"
             THEN [thrown |-> compiledArg.message, errors |-> errors,
                   compiledArgs |-> compiledArgs]
             ELSE IF compiledArg.result = "error"
             THEN compileArgs(e, i + 1, errors \o compiledArg.errors, compiledArgs)
             ELSE compileArgs(e, i + 1, errors, Append(compiledArgs, compiledArg))

compile(expected, e0) ==
    LET typecheckResult == typeCheckExpression(IF expected = NoType THEN e0.type ELSE expected, e0)
    IN  IF typecheckResult.errors # <<>> THEN Errors(typecheckResult.errors)
        ELSE LET e == typecheckResult.node IN
        IF e.literal
        THEN Success(StringifyValue(e.value), e.type, TRUE, TRUE, e,
                     [op |-> "literal", key |-> e.key, value |-> e.value])
        ELSE LET a == compileArgs(e, 0, <<>>, <<>>)
             IN  IF a.thrown # "" THEN Thrown(a.thrown)
                 ELSE IF a.errors # <<>> THEN Errors(a.errors)
                 ELSE compileCall(e, a.compiledArgs)

(***************************************************************************)
(* compileExpression(expr): the result handed to the caller, or the        *)
(* exception that reaches the caller (result "throw").                     *)
(***************************************************************************)
compileExpression(e) ==
    LET parsed == parseExpression("", e)
    IN  IF parsed.thrown # "" THEN Thrown("Error: " \o parsed.thrown)
        ELSE compile(NoType, parsed.node)

(***************************************************************************)
(* Run-time values.  A number is a fraction n/d in lowest terms with       *)
(* d > 0; NaN is a value of its own.  A Color carries the key of the node  *)
(* whose evaluation created it: two Color objects are the same object      *)
(* only if the same call created them.  An object is its list of           *)
(* (key, value) entries in insertion order.                                *)
(***************************************************************************)
NaN == [t |-> "nan"]
Function == [t |-> "function"]
Color(value, ref) == [t |-> "color", value |-> value, ref |-> ref]
Entry(k, v) == [k |-> k, v |-> v]

Abs(n) == IF n < 0 THEN -n ELSE n

RECURSIVE GCD(_, _)
GCD(a, b) == IF b = 0 THEN a ELSE GCD(b, a % b)

Rat(n, d) ==
    LET g == GCD(Abs(n), Abs(d))
        sgn == IF d < 0 THEN -1 ELSE 1
    IN  [t |-> "number", n |-> sgn * (n \div g), d |-> sgn * (d \div g)]

IsNum(v) == v.t = "number"
IsInt(v) == v.t = "number" /\ v.d = 1

RatLess(x, y) == x.n * y.d < y.n * x.d

\* Math.trunc of x.n / x.d
Trunc(x) == IF x.n >= 0 THEN x.n \div x.d ELSE -((-x.n) \div x.d)

RECURSIVE IntPow(_, _)
IntPow(b, k) == IF k = 0 THEN 1 ELSE b * IntPow(b, k - 1)

\* Math.pow(base, x) for an integer base and an integer exponent
Pow(base, x) == IF x >= 0 THEN Rat(IntPow(base, x), 1) ELSE Rat(1, IntPow(base, -x))

\* The values the model does not compute (Infinity, irrational numbers, string
\* comparison, ...): an evaluation that needs one is left out of the model.
Unmodelled == [t |-> "unmodelled"]

\* Boolean(v)
Truthy(v) ==
    CASE v.t \in {"undefined", "null", "nan"} -> FALSE
      [] v.t = "boolean" -> v.b
      [] v.t = "number" -> v.n # 0
      [] v.t = "string" -> v.s # ""
      [] OTHER -> TRUE

\* the strings of the model other than "": none of them reads as a number
NonNumericStrings == {"a", "b", "x", "two", "missing", "red", "arr", "s", "Point"}

\* Number(v)
ToNumber(v) ==
    CASE v.t \in {"number", "nan"} -> v
      [] v.t \in {"undefined", "object", "function", "color"} -> NaN
      [] v.t = "null" -> Rat(0, 1)
      [] v.t = "boolean" -> IF v.b THEN Rat(1, 1) ELSE Rat(0, 1)
      [] v.t = "string" -> IF v.s = "" THEN Rat(0, 1)
                           ELSE IF v.s \in NonNumericStrings THEN NaN ELSE Unmodelled
      [] OTHER -> Unmodelled

\* String(v)
ToStringValue(v) ==
    CASE v.t = "string" -> v
      [] v.t = "number" -> IF v.d = 1 THEN Str(ToString(v.n)) ELSE Unmodelled
      [] v.t = "nan" -> Str("NaN")
      [] v.t = "null" -> Str("null")
      [] v.t = "undefined" -> Str("undefined")
      [] v.t = "boolean" -> Str(IF v.b THEN "true" ELSE "false")
      [] v.t = "object" -> Str("[object Object]")
      [] OTHER -> Unmodelled

\* a op b on two numbers
NumberArithmetic(op, a, b) ==
    IF a = Unmodelled \/ b = Unmodelled THEN Unmodelled
    ELSE IF a = NaN \/ b = NaN THEN NaN
    ELSE CASE op = "+" -> Rat(a.n * b.d + b.n * a.d, a.d * b.d)
           [] op = "-" -> Rat(a.n * b.d - b.n * a.d, a.d * b.d)
           [] op = "*" -> Rat(a.n * b.n, a.d * b.d)
           [] op = "/" -> IF b.n = 0 THEN (IF a.n = 0 THEN NaN ELSE Unmodelled)
                          ELSE Rat(a.n * b.d, a.d * b.n)
           [] op = "%" -> IF b.n = 0 THEN NaN
                          ELSE Rat(a.n * b.d - Trunc(Rat(a.n * b.d, a.d * b.n)) * b.n * a.d,
                                   a.d * b.d)

\* x op y of JavaScript for the five arithmetic operators
Arithmetic(op, x, y) ==
    LET concatenation(sx, sy) ==
            IF sx = Unmodelled \/ sy = Unmodelled THEN Unmodelled ELSE Str(sx.s \o sy.s)
    IN
    IF op = "+" /\ (x.t = "string" \/ y.t = "string")
    THEN concatenation(ToStringValue(x), ToStringValue(y))
    ELSE IF x.t \in {"object", "function", "color"} \/ y.t \in {"object", "function", "color"}
    THEN Unmodelled
    ELSE NumberArithmetic(op, ToNumber(x), ToNumber(y))

\* x === y
StrictEquals(x, y) == x.t # "nan" /\ x = y

\* x op y for the relational operators, as a JavaScript boolean
Relational(op, x, y) ==
    LET numbers(a, b) ==
            IF a = Unmodelled \/ b = Unmodelled THEN Unmodelled
            ELSE IF a = NaN \/ b = NaN THEN Bool(FALSE)
            ELSE CASE op = "<" -> Bool(RatLess(a, b))
                   [] op = ">" -> Bool(RatLess(b, a))
                   [] op = "<=" -> Bool(~RatLess(b, a))
                   [] op = ">=" -> Bool(~RatLess(a, b))
    IN  IF x.t = "string" /\ y.t = "string" THEN Unmodelled
        ELSE numbers(ToNumber(x), ToNumber(y))

(***************************************************************************)
(* The evaluation context (evaluation_context.js).  A context function     *)
(* returns [status, v, message]: a value, or the error it throws.          *)
(***************************************************************************)
Returns(v) ==
    IF v = Unmodelled THEN [status |-> "unmodelled", v |-> Undefined, message |-> ""]
    ELSE [status |-> "value", v |-> v, message |-> ""]

RuntimeError(message) ==
    [status |-> "RuntimeError", v |-> Undefined,
     message |-> "ExpressionEvaluationError: " \o message]

\* a TypeError of the JavaScript engine (a property read on undefined or null, ...)
TypeError == [status |-> "TypeError", v |-> Undefined, message |-> "TypeError"]

NotModelled == [status |-> "unmodelled", v |-> Undefined, message |-> ""]

Diverges == [status |-> "diverges", v |-> Undefined, message |-> ""]

HasKey(o, k) == \E i \in 1..Len(o) : o[i].k = k

\* obj[key] on a plain object
Lookup(o, k) ==
    IF HasKey(o, k) THEN o[CHOOSE i \in 1..Len(o) : o[i].k = k].v ELSE Undefined

RECURSIVE JoinKeys(_)
JoinKeys(o) ==
    IF o = <<>> THEN ""
    ELSE IF Len(o) = 1 THEN o[1].k
    ELSE o[1].k \o "," \o JoinKeys(Tail(o))

\* obj[key] with neither test
getUnchecked(obj, key) ==
    IF obj.t = "object" /\ key.t = "string" THEN Returns(Lookup(obj.o, key.s)) ELSE NotModelled

get(obj, key) ==
    IF ~Truthy(obj)
    THEN IF key.t \in {"string", "undefined"}
         THEN RuntimeError("Cannot get property " \o ToStringValue(key).s \o " from null object")
         ELSE NotModelled
    ELSE IF obj.t \notin {"object", "array", "color"} THEN TypeError
    ELSE IF obj.t # "object" \/ key.t # "string" THEN NotModelled
    ELSE IF ~HasKey(obj.o, key.s)
    THEN RuntimeError("Property " \o key.s \o " not found in object with keys: ["
                      \o JoinKeys(obj.o) \o "]")
    ELSE Returns(obj.o[CHOOSE i \in 1..Len(obj.o) : obj.o[i].k = key.s].v)

typeOf(x) ==
    IF x.t = "array" THEN Returns(Str("Vector<Value>"))
    ELSE IF x.t = "null" THEN Returns(Str("Null"))
    ELSE IF x.t = "color" THEN Returns(Str("Color"))
    ELSE Returns(Str(CASE typeof(x) = "number" -> "Number"
                       [] typeof(x) = "string" -> "String"
                       [] typeof(x) = "boolean" -> "Boolean"
                       [] typeof(x) = "object" -> "Object"
                       [] typeof(x) = "undefined" -> "Undefined"
                       [] typeof(x) = "function" -> "Function"))

asArray(arr) == IF arr.t = "array" THEN Returns(arr) ELSE RuntimeError("Expected an array")

asObject(obj) ==
    IF Truthy(obj) /\ typeof(obj) = "object" THEN Returns(obj)
    ELSE RuntimeError("Expected an object")

\* parseColor (util/parse_color): the RGBA of a CSS colour string, or undefined
parseColor(input) == IF input = "red" THEN <<Rat(1, 1), Rat(0, 1), Rat(0, 1), Rat(1, 1)>> ELSE <<>>

\* new Color(s) for a string
color(s, ref) ==
    LET parsed(c) ==
            IF c = <<>>
            THEN RuntimeError("Could not parse color from value '" \o s.s \o "'")
            ELSE Returns(Color(c, ref))
    IN  IF s.t # "string" THEN NotModelled ELSE parsed(parseColor(s.s))

\* components[i] of a rest parameter: undefined past the end
Component(components, i) == IF i <= Len(components) THEN components[i] ELSE Undefined

rgba(components, ref) ==
    LET scaled(r, g, b, alpha) ==
            IF r = Unmodelled \/ g = Unmodelled \/ b = Unmodelled THEN NotModelled
            ELSE Returns(Color(<<r, g, b, alpha>>, ref))
    IN  scaled(Arithmetic("/", Component(components, 1), Rat(255, 1)),
               Arithmetic("/", Component(components, 2), Rat(255, 1)),
               Arithmetic("/", Component(components, 3), Rat(255, 1)),
               IF Len(components) > 3 THEN components[4] ELSE Rat(1, 1))

(***************************************************************************)
(* findStopLessThanOrEqualTo(stops, input): the loop, one iteration at a   *)
(* time.  stops are the literal stop keys, input any run-time value.       *)
(***************************************************************************)
SearchStart(stops) ==
    [lowerIndex |-> 0, upperIndex |-> Len(stops) - 1, currentIndex |-> 0,
     returned |-> FALSE, index |-> 0, unmodelled |-> FALSE]

Max(a, b) == IF a >= b THEN a ELSE b

\* stops[i] of JavaScript, i 0-based: undefined past the end
StopAt(stops, i) == IF i >= 0 /\ i < Len(stops) THEN Rat(stops[i + 1], 1) ELSE Undefined

\* one test of the while condition and, when it holds, one run of the loop body
SearchStep(stops, input, st) ==
    LET body(currentIndex, found, above, below, less, greater) ==
            IF above = Unmodelled \/ below = Unmodelled
            THEN [st EXCEPT !.returned = TRUE, !.unmodelled = TRUE]
            ELSE IF found \/ (above.b /\ below.b)
            THEN [st EXCEPT !.currentIndex = currentIndex, !.returned = TRUE,
                            !.index = currentIndex]
            ELSE IF less.b
            THEN [st EXCEPT !.currentIndex = currentIndex, !.lowerIndex = currentIndex + 1]
            ELSE IF greater.b
            THEN [st EXCEPT !.currentIndex = currentIndex, !.upperIndex = currentIndex - 1]
            ELSE [st EXCEPT !.currentIndex = currentIndex]
        compare(currentIndex, currentValue, upperValue) ==
            body(currentIndex, StrictEquals(input, currentValue),
                 Relational(">", input, currentValue), Relational("<", input, upperValue),
                 Relational("<", currentValue, input), Relational(">", currentValue, input))
        at(currentIndex) ==
            compare(currentIndex, StopAt(stops, currentIndex), StopAt(stops, currentIndex + 1))
    IN  IF ~(st.lowerIndex <= st.upperIndex)
        THEN [st EXCEPT !.returned = TRUE, !.index = Max(st.currentIndex - 1, 0)]
        ELSE at((st.lowerIndex + st.upperIndex) \div 2)

\* The loop run to its end.  An iteration that changes neither bound repeats
\* for ever: the call does not return.
RECURSIVE SearchRun(_, _, _)
SearchRun(stops, input, st) ==
    LET after(next) ==
            IF next.returned THEN next
            ELSE IF next.lowerIndex = st.lowerIndex /\ next.upperIndex = st.upperIndex
            THEN [next EXCEPT !.index = -1]
            ELSE SearchRun(stops, input, next)
    IN  after(SearchStep(stops, input, st))

\* a search that always answers the first stop
FirstStop(stops, input) == 0

\* the index returned, -1 when the call does not return, -2 when not modelled
findStopLessThanOrEqualTo(stops, input) ==
    LET result(st) == IF st.unmodelled THEN -2 ELSE st.index
    IN  result(SearchRun(stops, input, SearchStart(stops)))

(***************************************************************************)
(* interpolationFactor and the interpolation of util/interpolate.          *)
(***************************************************************************)
interpolationFactor(input, base, lowerValue, upperValue) ==
    LET ratio(difference, progress) ==
            IF base = 1 THEN NumberArithmetic("/", progress, difference)
            ELSE IF ~IsInt(progress) \/ ~IsInt(difference) THEN Unmodelled
            ELSE NumberArithmetic("/", NumberArithmetic("-", Pow(base, progress.n), Rat(1, 1)),
                                       NumberArithmetic("-", Pow(base, difference.n), Rat(1, 1)))
    IN  ratio(Arithmetic("-", upperValue, lowerValue), Arithmetic("-", input, lowerValue))

\* interpolate.number(a, b, t) = (a * (1 - t)) + (b * t)
interpolateNumber(a, b, t) ==
    LET sum(l, r) ==
            IF l = Unmodelled \/ r = Unmodelled THEN Unmodelled ELSE Arithmetic("+", l, r)
    IN  IF a = Unmodelled \/ b = Unmodelled \/ t = Unmodelled THEN Unmodelled
        ELSE sum(Arithmetic("*", a, Arithmetic("-", Rat(1, 1), t)), Arithmetic("*", b, t))

\* interpolate.color(from, to, t): the four components, each interpolated
interpolateColor(from, to, t) ==
    LET components(c) == IF \E i \in 1..4 : c[i] = Unmodelled THEN Unmodelled ELSE Arr(c)
    IN  components([i \in 1..4 |-> interpolateNumber(from[i], to[i], t)])

(***************************************************************************)
(* Eval(body, mapProperties, feature): what the generated JavaScript of a  *)
(* compiled node computes.  The result is [status, v, message, used]:      *)
(* status "value" with the value v, or the error thrown; used is the set   *)
(* of keys of the nodes whose code ran.                                    *)
(***************************************************************************)
Used(r, used) == [status |-> r.status, v |-> r.v, message |-> r.message, used |-> used]

\* feature.properties || {}, feature.geometry || {}
OrEmpty(v) == IF Truthy(v) THEN v ELSE Obj(<<>>)

\* x.name for a property read on any value
Property(x, name) ==
    IF x.t \in {"undefined", "null"} THEN TypeError
    ELSE IF x.t = "object" THEN Returns(Lookup(x.o, name))
    ELSE IF x.t = "array" /\ name = "length" THEN Returns(Rat(Len(x.a), 1))
    ELSE IF x.t = "string" /\ name = "length" THEN Returns(Rat(Len(x.s), 1))
    ELSE IF x.t = "color" /\ name = "value" THEN Returns(Arr(x.value))
    ELSE Returns(Undefined)

\* a[i]
Index(a, i) ==
    IF a.t \in {"undefined", "null"} THEN TypeError
    ELSE IF a.t = "array"
    THEN IF i.t = "number"
         THEN IF i.d = 1 /\ i.n >= 0 /\ i.n < Len(a.a) THEN Returns(a.a[i.n + 1])
              ELSE Returns(Undefined)
         ELSE IF i.t \in {"nan", "undefined", "null", "boolean"} THEN Returns(Undefined)
         ELSE NotModelled
    ELSE IF a.t \in {"number", "nan", "boolean"} THEN Returns(Undefined)
    ELSE NotModelled

\* Math.pow(a, b)
MathPow(a, b) ==
    IF IsInt(a) /\ IsInt(b) /\ (b.n >= 0 \/ a.n # 0) THEN Returns(Pow(a.n, b.n))
    ELSE NotModelled

\* the operators whose JavaScript evaluates every argument, left to right,
\* before anything else happens: vals are the argument values
Apply(op, key, vals, mapProperties, feature) ==
    LET v(i) == Component(vals, i)
    IN
    CASE op \in MathConstants \cup MathFunctions \cup {"upcase", "downcase", "concat"} ->
           NotModelled
      [] op \in BinaryMathOps ->
           IF Len(vals) = 1 THEN Returns(vals[1])
           ELSE Returns(Arithmetic(op, vals[1], vals[2]))
      [] op = "==" -> Returns(Bool(StrictEquals(vals[1], vals[2])))
      [] op = "!=" -> Returns(Bool(~StrictEquals(vals[1], vals[2])))
      [] op \in {">", "<", ">=", "<="} -> Returns(Relational(op, vals[1], vals[2]))
      [] op = "string" -> Returns(ToStringValue(vals[1]))
      [] op = "number" -> Returns(ToNumber(vals[1]))
      [] op = "boolean" -> Returns(Bool(Truthy(vals[1])))
      [] op = "json_array" -> asArray(v(1))
      [] op = "object" -> asObject(v(1))
      [] op = "color" -> color(v(1), key)
      [] op = "color_to_array" -> Property(vals[1], "value")
      [] op = "get" -> get(v(1), v(2))
      [] op = "at" -> Index(vals[1], vals[2])
      [] op = "typeof" -> typeOf(v(1))
      [] op = "length" -> Property(vals[1], "length")
      [] op = "properties" -> asObject(OrEmpty(feature.properties))
      [] op = "geometry_type" ->
           LET type == Property(OrEmpty(feature.geometry), "type").v
           IN  Returns(IF Truthy(type) THEN type ELSE Null)
      [] op = "id" -> Returns(IF typeof(feature.id) = "undefined" THEN Null ELSE feature.id)
      [] op = "zoom" -> Property(OrEmpty(mapProperties), "zoom")
      [] op = "^" -> MathPow(vals[1], vals[2])
      [] op = "!" -> Returns(Bool(~Truthy(vals[1])))
      [] op \in {"rgb", "rgba"} -> rgba(vals, key)
      [] op \in {"step", "exponential", "linear"} -> Returns(Undefined)

\* evaluateCurve(input, stopInputs, stopOutputs, interpolation, resultType):
\* outs[i] is what the call stopOutputs[i-1]() gives.
evaluateCurve(input, stopInputs, outs, interpolation, resultType, key) ==
    LET colour(c, used) ==
            IF c = Unmodelled THEN Used(NotModelled, used)
            ELSE Used(Returns(Color(c.a, key)), used)
        interpolated(lower, upper, t, used) ==
            IF resultType = "color"
            THEN IF lower.v.t # "color" \/ upper.v.t # "color" \/ t = Unmodelled
                 THEN Used(NotModelled, used)
                 ELSE colour(interpolateColor(lower.v.value, upper.v.value, t), used)
            ELSE Used(Returns(interpolateNumber(lower.v, upper.v, t)), used)
        between(index, lower, upper, t) ==
            IF interpolation.name = "step" THEN lower
            ELSE IF lower.status # "value" THEN lower
            ELSE IF index + 2 > Len(stopInputs) THEN Used(TypeError, lower.used)
            ELSE IF upper.status # "value" THEN Used(upper, lower.used \cup upper.used)
            ELSE interpolated(lower, upper, t, lower.used \cup upper.used)
        found(index) ==
            IF index = -1 THEN Used(Diverges, {})
            ELSE IF index = -2 THEN Used(NotModelled, {})
            ELSE between(index, outs[index + 1], outs[index + 2],
                         interpolationFactor(input,
                                             IF interpolation.name = "exponential"
                                             THEN interpolation.base ELSE 1,
                                             StopAt(stopInputs, index),
                                             StopAt(stopInputs, index + 1)))
        clamped(first, last) ==
            IF first = Unmodelled \/ last = Unmodelled THEN Used(NotModelled, {})
            ELSE IF first.b THEN outs[1]
            ELSE IF last.b THEN outs[Len(stopInputs)]
            ELSE found(findStopLessThanOrEqualTo(stopInputs, input))
    IN  clamped(Relational("<=", input, StopAt(stopInputs, 0)),
                Relational(">=", input, StopAt(stopInputs, Len(stopInputs) - 1)))

RECURSIVE Eval(_, _, _)
RECURSIVE EvalArgs(_, _, _, _, _, _)
RECURSIVE EvalBoolean(_, _, _, _, _, _)
RECURSIVE EvalCase(_, _, _, _, _)

\* the outcome r of a subexpression, with the keys evaluated before it
Through(r, used) == Used(r, used \cup r.used)

\* the arguments from the i-th on, left to right, until one throws
EvalArgs(args, i, vals, used, mapProperties, feature) ==
    LET after(r) ==
            IF r.status # "value"
            THEN [status |-> r.status, vals |-> vals, used |-> used \cup r.used, last |-> r]
            ELSE EvalArgs(args, i + 1, Append(vals, r.v), used \cup r.used,
                          mapProperties, feature)
    IN  IF i > Len(args) THEN [status |-> "value", vals |-> vals, used |-> used]
        ELSE after(Eval(args[i], mapProperties, feature))

\* a0 && a1 && ... with every operand evaluated before the operator is applied
EvalBooleanStrict(op, args, i, used, mapProperties, feature) ==
    LET all(a) ==
            IF a.status # "value" THEN Used(a.last, a.used)
            ELSE Used(Returns(Bool(IF op = "&&"
                                   THEN \A k \in 1..Len(a.vals) : Truthy(a.vals[k])
                                   ELSE \E k \in 1..Len(a.vals) : Truthy(a.vals[k]))),
                      a.used)
    IN  all(EvalArgs(args, i, <<>>, used, mapProperties, feature))

\* a0 && a1 && ... and a0 || a1 || ...
EvalBoolean(op, args, i, used, mapProperties, feature) ==
    LET after(r) ==
            IF r.status # "value" \/ i = Len(args) THEN Through(r, used)
            ELSE IF (op = "&&") = Truthy(r.v)
            THEN EvalBoolean(op, args, i + 1, used \cup r.used, mapProperties, feature)
            ELSE Through(r, used)
    IN  after(Eval(args[i], mapProperties, feature))

\* c1 ? v1 : c2 ? v2 : ... : f
EvalCase(args, i, used, mapProperties, feature) ==
    LET after(c) ==
            IF c.status # "value" THEN Through(c, used)
            ELSE IF Truthy(c.v)
            THEN Through(Eval(args[i + 1], mapProperties, feature), used \cup c.used)
            ELSE EvalCase(args, i + 2, used \cup c.used, mapProperties, feature)
    IN  IF i = Len(args) THEN Through(Eval(args[i], mapProperties, feature), used)
        ELSE after(Eval(args[i], mapProperties, feature))

Eval(body, mapProperties, feature) ==
    LET hasKey(obj, k, used) ==
            IF k.status # "value" THEN Used(k, used)
            ELSE IF obj.v.t = "object" /\ k.v.t = "string"
            THEN Used(Returns(Bool(HasKey(obj.v.o, k.v.s))), used)
            ELSE Used(NotModelled, used)
        has(obj, k) ==
            IF obj.status # "value" THEN Through(obj, {body.key})
            ELSE IF obj.v.t \in {"undefined", "null"}
            THEN Used(TypeError, {body.key} \cup obj.used)
            ELSE hasKey(obj, k, {body.key} \cup obj.used \cup k.used)
        curve(input, outs) ==
            IF input.status # "value" THEN Through(input, {body.key})
            ELSE Through(evaluateCurve(input.v, body.stopInputs, outs, body.interpolation,
                                       body.resultType, body.key),
                         {body.key} \cup input.used)
        call(a) ==
            IF a.status # "value" THEN Used(a.last, a.used)
            ELSE Used(Apply(body.op, body.key, a.vals, mapProperties, feature), a.used)
    IN
    IF body.op = "literal" THEN Used(Returns(body.value), {body.key})
    ELSE IF body.op \in BooleanOps
    THEN EvalBoolean(body.op, body.args, 1, {body.key}, mapProperties, feature)
    ELSE IF body.op = "case" THEN EvalCase(body.args, 1, {body.key}, mapProperties, feature)
    ELSE IF body.op = "arrow" THEN Used(Returns(Function), {body.key})
    ELSE IF body.op = "has"
    THEN has(Eval(body.args[1], mapProperties, feature),
             Eval(body.args[2], mapProperties, feature))
    ELSE IF body.op = "evaluateCurve"
    THEN curve(Eval(body.args[1], mapProperties, feature),
               [i \in 1..Len(body.stopOutputs) |->
                   Eval(body.stopOutputs[i], mapProperties, feature)])
    ELSE call(EvalArgs(body.args, 1, <<>>, {body.key}, mapProperties, feature))

(***************************************************************************)
(* The inputs: style expressions as JSON, features and map properties.     *)
(***************************************************************************)
MaxStops == 3
MaxZoom == 2 * MaxStops - 1

\* [name, arg, ...]
Op(name, args) == Arr(<<Str(name)>> \o args)

PropX == Op("get", <<Op("properties", <<>>), Str("x")>>)
XIs(n) == Op("==", <<PropX, Num(n)>>)
CaseX == Op("case", <<XIs(1), Str("a"), Str("b")>>)
CaseXY == Op("case", <<XIs(1), Str("a"), XIs(2), Str("b"), Str("c")>>)
AtX(i) == Op("at", <<Op("json_array", <<PropX>>), Num(i)>>)

\* the i-th stop of the curves, i from 0: key 2i and a constant output
StopKey(i) == 2 * i
StopOutput(i) == 10 * (i + 1)

RECURSIVE Stops(_)
Stops(n) == IF n = 0 THEN <<>> ELSE Stops(n - 1) \o <<Num(StopKey(n - 1)), Num(StopOutput(n - 1))>>

\* the stops with the given keys, in the given order, and constant outputs
RECURSIVE StopsOf(_)
StopsOf(keys) ==
    IF keys = <<>> THEN <<>>
    ELSE StopsOf(SubSeq(keys, 1, Len(keys) - 1))
         \o <<Num(keys[Len(keys)]), Num(StopOutput(Len(keys) - 1))>>

\* stop keys that are not strictly ascending
Disordered == {<<2, 0>>, <<0, 0>>, <<0, 2, 1>>, <<0, 2, 2>>}

Curve(interpolation, input, stops) == Op("curve", <<interpolation, input>> \o stops)

Interpolations == {Op("step", <<>>), Op("linear", <<>>), Op("exponential", <<Num(2)>>)}

Zoom == Op("zoom", <<>>)

Wrappers == {"number", "string"}

\* two calls that make the colour [1, 0, 0, 1]
Reds == {Op("rgb", <<Num(255), Num(0), Num(0)>>), Op("rgba", <<Num(255), Num(0), Num(0), Num(1)>>)}

LiteralInputs ==
    {Null, Undefined, Str("a"), Str("red"), Num(0), Num(1), Bool(TRUE), Bool(FALSE),
     Obj(<<Entry("x", Num(1))>>)}

ArithmeticInputs ==
    {Op(o, a) : o \in BinaryMathOps,
                a \in {<<>>, <<Num(1)>>, <<Num(1), Num(2)>>, <<Num(1), Num(2), Num(3)>>,
                       <<Num(1), Str("two")>>, <<Zoom, Num(2)>>}}

ArityInputs ==
    {Op("^", <<Num(2)>>), Op("^", <<Num(2), Num(3)>>), Op("^", <<Num(2), Num(3), Num(1)>>),
     Op("^", <<Str("a"), Num(2)>>),
     Op("!", <<>>), Op("!", <<Bool(TRUE)>>), Op("!", <<Bool(TRUE), Bool(FALSE)>>),
     Op("!", <<Num(1)>>),
     Op("get", <<>>), Op("get", <<Op("properties", <<>>)>>),
     Op("get", <<Op("properties", <<>>), Str("x"), Str("y")>>),
     Op("rgb", <<Num(255), Num(0)>>), Op("rgb", <<Num(255), Num(0), Num(0)>>),
     Op("rgb", <<Num(255), Num(0), Num(0), Num(1)>>),
     Op("rgba", <<Num(255), Num(0), Num(0), Num(1)>>),
     Op("&&", <<>>), Op("&&", <<Bool(FALSE), XIs(1)>>), Op("||", <<Bool(TRUE), XIs(1)>>),
     Op("||", <<XIs(1), XIs(2), Bool(FALSE)>>),
     Op("foo", <<>>), Op("foo", <<Num(1)>>), Arr(<<>>), Arr(<<Num(1)>>),
     Op("+", <<Num(1), Op("foo", <<>>)>>), Op("string", <<Null>>),
     Op("string", <<Obj(<<>>)>>)}

\* conditions of a case: Booleans, generic calls, and values that are no Boolean
CaseConditions ==
    {Bool(TRUE), XIs(1), Op("case", <<Bool(TRUE), Bool(TRUE), Bool(FALSE)>>), AtX(0),
     Op("!", <<Bool(FALSE)>>), Num(1), Str("a"), Op("zoom", <<>>)}

GenericInputs ==
    {Op("string", <<Op("case", <<c, Str("a"), Str("b")>>)>>) : c \in CaseConditions} \cup
    {CaseX, CaseXY, Op("case", <<>>), Op("case", <<Str("a")>>),
     Op("case", <<Num(1), Str("a"), Str("b")>>), Op("at", <<Num(1), Str("a")>>),
     AtX(0), Curve(Op("step", <<>>), Zoom, Stops(2)),
     Op("length", <<Str("abc")>>), Op("length", <<Op("json_array", <<PropX>>)>>),
     Op("length", <<Num(1)>>),
     Op("==", <<Num(1), Num(1)>>), Op("==", <<Num(1), Str("a")>>), XIs(1),
     Op("!=", <<Op("id", <<>>), Num(7)>>),
     Op("<", <<Zoom, Num(3)>>),
     Op("+", <<Op("case", <<Bool(TRUE), Str("a"), Str("b")>>), Num(1)>>),
     Op("+", <<Op("case", <<XIs(1), Num(1), Num(2)>>), Zoom>>),
     Op("+", <<AtX(0), Num(1)>>),
     Op("!", <<Op("case", <<XIs(1), Bool(TRUE), Bool(FALSE)>>)>>),
     Op("number", <<Op("case", <<Bool(TRUE), Num(1), Op("number", <<PropX>>)>>)>>),
     Op("number", <<Op("case", <<Bool(FALSE), Op("number", <<PropX>>), Num(2)>>)>>),
     Op("&&", <<Bool(TRUE), XIs(1), XIs(2)>>)}
    \cup {Op(o, <<a, b>>) : o \in {"==", "!="}, a \in Reds, b \in Reds}
    \cup {Op(w, <<g>>) : w \in Wrappers,
                         g \in {CaseX, CaseXY, Op("case", <<>>), Op("case", <<Str("a")>>),
                                Op("case", <<XIs(1), Str("a")>>),
                                Op("case", <<Num(1), Str("a"), Str("b")>>),
                                AtX(0), AtX(5)}}

ContextInputs ==
    {Op("properties", <<>>), Op("geometry_type", <<>>), Op("id", <<>>), Zoom, PropX,
     Op("get", <<Op("properties", <<>>), Str("missing")>>),
     Op("has", <<Op("properties", <<>>), Str("x")>>),
     Op("typeof", <<PropX>>), Op("typeof", <<Op("id", <<>>)>>),
     Op("typeof", <<Op("geometry_type", <<>>)>>),
     Op("number", <<PropX>>), Op("string", <<Zoom>>), Op("boolean", <<Op("id", <<>>)>>),
     Op("json_array", <<PropX>>), Op("object", <<PropX>>),
     Op("color", <<Str("red")>>), Op("color", <<Str("a")>>),
     Op("color_to_array", <<Op("rgb", <<Num(255), Num(0), Num(0)>>)>>),
     Op("concat", <<>>), Op("step", <<>>)}

CurveInputs ==
    {Op("number", <<Curve(i, Zoom, Stops(n))>>) : i \in Interpolations, n \in 0..MaxStops}
    \cup {Op("number", <<Curve(i, Zoom, StopsOf(k))>>) : i \in Interpolations, k \in Disordered}
    \cup {Op("number", <<Curve(Op("step", <<>>), Op("number", <<PropX>>), Stops(2))>>),
          Op("number", <<Curve(Str("step"), Zoom, Stops(2))>>),
          Op("number", <<Curve(Op("exponential", <<>>), Zoom, Stops(2))>>),
          Op("number", <<Curve(Op("exponential", <<Zoom>>), Zoom, Stops(2))>>),
          Op("number", <<Curve(Op("linear", <<>>), Zoom, <<Zoom, Num(10), Num(1), Num(20)>>)>>),
          Op("number", <<Curve(Op("linear", <<>>), Zoom,
                               <<Num(0), Str("a"), Num(1), Str("b")>>)>>),
          Op("string", <<Curve(Op("step", <<>>), Zoom, <<Num(0), Str("a"), Num(2), Str("b")>>)>>),
          Op("number", <<Curve(Op("step", <<>>), Zoom,
                               <<Num(0), PropX, Num(2), Op("number", <<PropX>>)>>)>>),
          Op("number", <<Curve(Op("linear", <<>>), Zoom,
                               <<Num(0), Op("number", <<PropX>>), Num(2), Num(20)>>)>>),
          Op("number", <<Op("curve", <<>>)>>),
          Op("number", <<Curve(Op("step", <<>>), Zoom, <<>>)>>)}

ExprSet == LiteralInputs \cup ArithmeticInputs \cup ArityInputs \cup GenericInputs
           \cup ContextInputs \cup CurveInputs

\* feature, as the function reads it: feature.properties, .geometry, .id
Feature(properties, geometry, id) == [properties |-> properties, geometry |-> geometry, id |-> id]

Features ==
    {Feature(Undefined, Undefined, Undefined),
     Feature(Obj(<<Entry("x", Num(1))>>), Obj(<<Entry("type", Str("Point"))>>), Num(7)),
     Feature(Obj(<<Entry("x", Num(2))>>), Undefined, Undefined),
     Feature(Obj(<<Entry("x", Arr(<<Str("a")>>))>>), Undefined, Str("a")),
     Feature(Obj(<<Entry("y", Num(1))>>), Obj(<<>>), Undefined),
     Feature(Obj(<<>>), Undefined, Undefined)}

ZoomValues == {Rat(z, 1) : z \in -1..MaxZoom} \cup {Rat(1, 2), Rat(5, 2)}

MapProperties == {Undefined} \cup {Obj(<<Entry("zoom", z)>>) : z \in ZoomValues}

(***************************************************************************)
(* The state machine: an expression is compiled once, and the function of  *)
(* a successful compilation is then called any number of times.            *)
(***************************************************************************)
NotCompiled == [result |-> "none"]
NoOutput == [status |-> "none"]

Init ==
    /\ expr \in ExprSet
    /\ pc = "start"
    /\ compiled = NotCompiled
    /\ output = NoOutput

\* compiled = compileExpression(expr)
CompileExpression ==
    /\ pc = "start"
    /\ compiled' = compileExpression(expr)
    /\ pc' = "compiled"
    /\ UNCHANGED <<expr, output>>

\* compiled.function(mapProperties, feature)
Evaluate ==
    /\ pc \in {"compiled", "called"}
    /\ compiled.result = "success"
    /\ \E mapProperties \in MapProperties, feature \in Features :
          LET return(r) ==
                  /\ r.status # "unmodelled"
                  /\ output' = [mapProperties |-> mapProperties, feature |-> feature,
                                status |-> r.status, v |-> r.v, message |-> r.message,
                                used |-> r.used]
          IN  return(Eval(compiled.body, mapProperties, feature))
    /\ pc' = "called"
    /\ UNCHANGED <<expr, compiled>>

Next == CompileExpression \/ Evaluate

Spec == Init /\ [][Next]_vars

(***************************************************************************)
(* findStopLessThanOrEqualTo called on its own: expr holds the arguments   *)
(* of the call, output the index it returns.                               *)
(***************************************************************************)
\* the strictly ascending lists of one to MaxStops stops
AscendingStops ==
    {stops \in UNION {[1..n -> 0..MaxZoom] : n \in 1..MaxStops} :
        \A i \in 1..(Len(stops) - 1) : stops[i] < stops[i + 1]}

\* inputs below, between, on and above the stops
SearchInputs == ZoomValues \cup {Rat(MaxZoom + 1, 1)}

SearchInit ==
    /\ expr \in {[stops |-> stops, input |-> input] :
                    stops \in AscendingStops, input \in SearchInputs}
    /\ pc = "start"
    /\ compiled = NotCompiled
    /\ output = NoOutput

\* output = findStopLessThanOrEqualTo(stops, input)
FindStop ==
    /\ pc = "start"
    /\ output' = [status |-> "value", index |-> findStopLessThanOrEqualTo(expr.stops, expr.input)]
    /\ pc' = "called"
    /\ UNCHANGED <<expr, compiled>>

SearchNext == FindStop

SearchSpec == SearchInit /\ [][SearchNext]_vars

(***************************************************************************)
(* matchTypeError called on its own with a typename map: expr holds the    *)
(* arguments of the call, output the diagnostic and the map it leaves.     *)
(***************************************************************************)
\* variants whose members bind typenames, some before they fail
VariantTypes ==
    {variant(<<vector(typename("T")), anyArray(typename("T"))>>),
     variant(<<vector(typename("T")), StringType>>),
     variant(<<array(typename("T"), 2), anyArray(typename("U"))>>),
     variant(<<array(typename("T"), 2), vector(typename("U"))>>),
     variant(<<array(typename("T"), 2), array(typename("U"), 3)>>),
     variant(<<NumberType, StringType>>),
     variant(<<typename("T"), typename("U")>>),
     ValueType}

\* the types of values
ActualTypes ==
    {NumberType, StringType, vector(NumberType), vector(ValueType), vector(vector(StringType)),
     array(NumberType, 2), array(NumberType, 3), array(StringType, 3), ValueType,
     variant(<<NumberType, StringType>>)}

TypenameMaps == {EmptyMap, "T" :> NumberType, "U" :> StringType, "T" :> StringType @@ "U" :> StringType}

MatchInit ==
    /\ expr \in {[expected |-> expected, t |-> t, typenameMap |-> map] :
                    expected \in VariantTypes, t \in ActualTypes, map \in TypenameMaps}
    /\ pc = "start"
    /\ compiled = NotCompiled
    /\ output = NoOutput

\* output = matchTypeError(expected, t, typenameMap), with the map afterwards
MatchTypes ==
    /\ pc = "start"
    /\ output' = [status |-> "value",
                  match |-> matchTypeError(expr.expected, expr.t, expr.typenameMap, TRUE)]
    /\ pc' = "called"
    /\ UNCHANGED <<expr, compiled>>

MatchNext == MatchTypes

MatchSpec == MatchInit /\ [][MatchNext]_vars

(***************************************************************************)
(* Vocabulary of the properties.                                           *)
(***************************************************************************)
Compiled == pc # "start"
Succeeded == Compiled /\ compiled.result = "success"
Called == pc = "called"
Returned == Called /\ output.status = "value"

\* the arguments of a JSON call [name, arg, ...]
IsCall(e, names) == e.t = "array" /\ e.a # <<>> /\ e.a[1].t = "string" /\ e.a[1].s \in names
Args(e) == Tail(e.a)

\* a runtime value matches a type: Value is any value of a primitive type
\* other than Interpolation, or a vector of such values
RECURSIVE ValueMatches(_, _)
ValueMatches(v, type) ==
    CASE type.kind = "primitive" ->
           (CASE type.name = "Null" -> v.t = "null"
              [] type.name = "Number" -> v.t \in {"number", "nan"}
              [] type.name = "String" -> v.t = "string"
              [] type.name = "Boolean" -> v.t = "boolean"
              [] type.name = "Color" -> v.t = "color"
              [] type.name = "Object" -> v.t = "object"
              [] type.name = "Interpolation" -> v.t = "undefined")
      [] type.kind = "variant" ->
           \E i \in 1..Len(Members(type)) : ValueMatches(v, Members(type)[i])
      [] type.kind = "vector" ->
           v.t = "array" /\ \A i \in 1..Len(v.a) : ValueMatches(v.a[i], type.itemType)
      [] type.kind = "array" ->
           /\ v.t = "array" /\ Len(v.a) = type.N
           /\ \A i \in 1..Len(v.a) : ValueMatches(v.a[i], type.itemType)
      [] OTHER -> FALSE

\* C1: compileExpression returns normally for every input: a failure is the
\* result 'error' with a non-empty list of {key, error}, never an exception.
C1_NoExceptionPropagates ==
    Compiled =>
        \/ compiled.result = "success"
        \/ compiled.result = "error" /\ compiled.errors # <<>>

\* C2: the value a successfully compiled function returns matches the
\* declared type of the compilation.
C2_TypeSoundness ==
    Returned => ValueMatches(output.v, compiled.type)

\* the left-to-right fold of the operator over number literals
RECURSIVE Fold(_, _)
Fold(o, a) ==
    IF Len(a) = 1 THEN a[1]
    ELSE Arithmetic(o, Fold(o, SubSeq(a, 1, Len(a) - 1)), a[Len(a)])

NumberLists == {<<Num(1)>>, <<Num(1), Num(2)>>, <<Num(1), Num(2), Num(3)>>}

\* C3: + - * / % take any number of Number arguments and fold them left to
\* right: the call compiles to a Number, constant in feature and zoom, and
\* evaluates to the fold; ["+", 1, 2, 3] is 6.
C3_ArithmeticIsVariadic ==
    \A o \in BinaryMathOps, a \in NumberLists :
        (Compiled /\ expr = Op(o, a)) =>
            /\ compiled.result = "success"
            /\ compiled.type = NumberType
            /\ compiled.isFeatureConstant /\ compiled.isZoomConstant
            /\ Returned => output.v = Fold(o, a)

\* calls with one argument of the wrong type: <<call, index of that argument>>
Mismatches ==
    {<<Op(o, <<Num(1), Str("two")>>), 2>> : o \in BinaryMathOps}
    \cup {<<Op("^", <<Str("a"), Num(2)>>), 1>>, <<Op("!", <<Num(1)>>), 1>>,
          <<Op("==", <<Num(1), Str("a")>>), 2>>}

\* C4: an argument of the wrong type is reported at the argument's key (the
\* call's key, '.', the 1-based index) as 'Expected <expected> but found
\* <actual> instead.'; ["+", 1, "two"] fails at '.2'.
C4_MismatchAtArgumentKey ==
    \A m \in Mismatches :
        (Compiled /\ expr = m[1]) =>
            /\ compiled.result = "error"
            /\ \A i \in 1..Len(compiled.errors) :
                  compiled.errors[i].key = "." \o ToString(m[2])
            /\ \E i \in 1..Len(compiled.errors), expected, actual \in {"Number", "String", "Boolean"} :
                  compiled.errors[i].error =
                      "Expected " \o expected \o " but found " \o actual \o " instead."
\* the value of feature.properties.x, Undefined when there is none
PropertyX(feature) ==
    IF feature.properties.t = "object" THEN Lookup(feature.properties.o, "x") ELSE Undefined

\* C5: a case call compiles, also as the root expression, and yields the
\* value of the first true condition, else the fallback: ["case", x == 1,
\* "a", "b"] is not feature constant and yields "a" for {x:1}, "b" for {x:2}.
C5_CaseSelectsFirstTrue ==
    (Compiled /\ expr \in {CaseX, CaseXY}) =>
        /\ compiled.result = "success"
        /\ ~compiled.isFeatureConstant
        /\ (Called /\ PropertyX(output.feature) = Num(1)) =>
              output.status = "value" /\ output.v = Str("a")
        /\ (Called /\ PropertyX(output.feature) = Num(2)) =>
              output.status = "value" /\ output.v = Str("b")

\* a Typename occurs in the type, at any depth
RECURSIVE HasTypename(_)
HasTypename(type) ==
    CASE type.kind = "typename" -> TRUE
      [] type.kind \in {"vector", "array", "any_array"} -> HasTypename(type.itemType)
      [] type.kind = "variant" ->
           \E i \in 1..Len(type.members) : HasTypename(type.members[i])
      [] type.kind = "nargs" -> \E i \in 1..Len(type.types) : HasTypename(type.types[i])
      [] type.kind = "lambda" ->
           HasTypename(type.result) \/ \E i \in 1..Len(type.args) : HasTypename(type.args[i])
      [] OTHER -> FALSE

\* some node of the typed tree has a type with a Typename in it
RECURSIVE TypenameRemains(_)
TypenameRemains(e) ==
    \/ HasTypename(e.type)
    \/ ~e.literal /\ \E i \in 1..Len(e.arguments) : TypenameRemains(e.arguments[i])

\* C6: after a successful type check no Typename remains in the annotated
\* tree, neither in a result type nor in a resolved argument type, at any
\* depth.
C6_NoTypenameRemains ==
    Succeeded => ~TypenameRemains(compiled.expression)

\* some node of the JSON expression is a call of one of the names
RECURSIVE Mentions(_, _)
Mentions(e, names) ==
    /\ e.t = "array"
    /\ \/ IsCall(e, names)
       \/ \E i \in 2..Len(e.a) : Mentions(e.a[i], names)

FeatureOps == {"properties", "geometry_type", "id"}
ZoomOps == {"zoom"}

\* the flag of a node of the typed tree: the conjunction of the children's
\* flags and the operator's own
RECURSIVE NodeConstant(_, _)
NodeConstant(e, names) ==
    \/ e.literal
    \/ /\ ~e.literal
       /\ e.name \notin names
       /\ \A i \in 1..Len(e.arguments) : NodeConstant(e.arguments[i], names)

\* C7: of a successful compilation, isFeatureConstant is false iff the
\* expression calls properties, geometry_type or id somewhere, isZoomConstant
\* is false iff it calls zoom somewhere; a node's flag is the conjunction of
\* its children's flags and the operator's own.
C7_ConstancyFlags ==
    Succeeded =>
        /\ ~compiled.isFeatureConstant <=> Mentions(expr, FeatureOps)
        /\ ~compiled.isZoomConstant <=> Mentions(expr, ZoomOps)
        /\ compiled.isFeatureConstant = NodeConstant(compiled.expression, FeatureOps)
        /\ compiled.isZoomConstant = NodeConstant(compiled.expression, ZoomOps)

\* a compilation whose two flags are false: it reads the feature in a stop
\* output and the zoom as the curve's input
C7_Witness ==
    /\ Succeeded
    /\ ~compiled.isFeatureConstant /\ ~compiled.isZoomConstant
    /\ Mentions(expr, {"curve"})

\* the literal inputs and their types
LiteralType(e) ==
    CASE e.t \in {"null", "undefined"} -> NullType
      [] e.t = "string" -> StringType
      [] e.t = "number" -> NumberType
      [] e.t = "boolean" -> BooleanType

\* C8: null, a string, a number, a boolean and an absent input compile to
\* their literal type, constant in feature and zoom, and the function
\* returns the literal (null for an absent input) whatever it is given.
C8_LiteralsCompile ==
    (Compiled /\ expr.t \in {"null", "undefined", "string", "number", "boolean"}) =>
        /\ compiled.result = "success"
        /\ compiled.type = LiteralType(expr)
        /\ compiled.isFeatureConstant /\ compiled.isZoomConstant
        /\ Called => /\ output.status = "value"
                     /\ output.v = IF expr.t = "undefined" THEN Null ELSE expr

\* the operators that declare a fixed number of parameters
FixedArity == {"^", "!", "get", "rgb"}
\* C9: a fixed-arity operator given fewer or more arguments than it declares
\* fails to compile with 'Expected N arguments, but found M instead.' at the
\* call's key, M being the number of arguments given.
C9_ArityMismatchIsAnError ==
    \A o \in FixedArity :
        (Compiled /\ IsCall(expr, {o}) /\ Len(Args(expr)) # Len(DefinitionType(o).args)) =>
            /\ compiled.result = "error"
            /\ \E i \in 1..Len(compiled.errors),
                  n \in 0..(Len(Args(expr)) + Len(DefinitionType(o).args)) :
                  compiled.errors[i] = Diagnostic("", ExpectedArguments(n, Len(Args(expr))))
\* the compiled expression is ["number", ["curve", ...]] with two stops or more
IsCurveCall ==
    /\ Succeeded
    /\ compiled.body.op = "number"
    /\ compiled.body.args[1].op = "evaluateCurve"

CurveBody == compiled.body.args[1]

\* C10: a curve of n >= 2 ascending stops on a numeric input returns v_0 at
\* or below k_0 and v_(n-1) at or above k_(n-1); in between it uses the stops
\* i and i+1 with k_i <= input < k_(i+1), and a step curve returns v_i.
C10_CurveEvaluation ==
    (Called /\ IsCurveCall) =>
        LET c == CurveBody
            n == Len(c.stopInputs)
            input == Eval(c.args[1], output.mapProperties, output.feature)
            k(i) == Rat(c.stopInputs[i + 1], 1)
            v(i) == Eval(c.stopOutputs[i + 1], output.mapProperties, output.feature)
            outputKey(i) == c.stopOutputs[i + 1].key
            outputKeys == {outputKey(i) : i \in 0..(n - 1)}
            step == c.interpolation.name = "step"
            \* the function returns Number(r), or raises what r raises
            Gives(r) == /\ output.status = r.status
                        /\ r.status = "value" => output.v = ToNumber(r.v)
        IN  (input.status = "value" /\ IsNum(input.v)) =>
                /\ n >= 2
                /\ ~RatLess(k(0), input.v) => Gives(v(0))
                /\ ~RatLess(input.v, k(n - 1)) => Gives(v(n - 1))
                /\ \A i \in 0..(n - 2) :
                      ( /\ RatLess(k(0), input.v) /\ RatLess(input.v, k(n - 1))
                        /\ ~RatLess(input.v, k(i)) /\ RatLess(input.v, k(i + 1)) ) =>
                          /\ output.used \cap outputKeys \subseteq {outputKey(i), outputKey(i + 1)}
                          /\ outputKey(i) \in output.used
                          /\ step => Gives(v(i)) /\ outputKey(i + 1) \notin output.used
                          /\ (~step /\ v(i).status = "value") => outputKey(i + 1) \in output.used

\* a step curve of three stops or more asked between its second and third
\* stop answers the second output
C10_Witness ==
    /\ Called /\ IsCurveCall
    /\ CurveBody.interpolation.name = "step"
    /\ Len(CurveBody.stopInputs) >= 3
    /\ CurveBody.args[1].op = "zoom"
    /\ output.mapProperties = Obj(<<Entry("zoom", Rat(5, 2))>>)
    /\ output.status = "value"
    /\ output.v = Num(StopOutput(1))

\* ["number", ["curve", interpolation, ["zoom"], 0, 10]]: a curve of one stop
SingleStopCurves == {Op("number", <<Curve(i, Zoom, Stops(1))>>) : i \in Interpolations}

\* C11: a curve of exactly one stop (k_0, v_0) reduces to v_0: whatever the
\* interpolation and the input, the compiled expression returns the value of
\* the output expression v_0.
C11_SingleStopReducesToOutput ==
    (Called /\ expr \in SingleStopCurves) =>
        /\ output.status = "value"
        /\ output.v = Num(StopOutput(0))

\* the keys of the curves compiled: those of Stops(n), and the disordered ones
KeyLists == {[i \in 1..n |-> StopKey(i - 1)] : n \in 0..MaxStops} \cup Disordered

StrictlyAscending(keys) == \A i \in 1..(Len(keys) - 1) : keys[i] < keys[i + 1]

\* compiling ["number", ["curve", interpolation, ["zoom"], k_0, v_0, ...]] with
\* keys from the lists fails iff two consecutive keys are not strictly
\* ascending, and then with diagnostics at the key of the curve
FailsIffNotAscending(lists) ==
    \A i \in Interpolations, k \in lists :
        (Compiled /\ expr = Op("number", <<Curve(i, Zoom, StopsOf(k))>>)) =>
            /\ compiled.result # "success" <=> ~StrictlyAscending(k)
            /\ ~StrictlyAscending(k) =>
                  /\ compiled.result = "error"
                  /\ \A j \in 1..Len(compiled.errors) : compiled.errors[j].key = ".1"

C13_EqualityByValue ==
    /\ \A a \in Reds, b \in Reds :
          /\ (Called /\ expr = Op("==", <<a, b>>)) => output.v = Bool(TRUE)
          /\ (Called /\ expr = Op("!=", <<a, b>>)) => output.v = Bool(FALSE)
    /\ (Called /\ expr = Op("==", <<Num(1), Num(1)>>)) => output.v = Bool(TRUE)
    /\ (Called /\ expr = XIs(1) /\ output.status = "value") =>
          output.v = Bool(PropertyX(output.feature) = Num(1))

\* the node was evaluated in the call that gave output
Evaluated(b) == b.key \in output.used

\* evaluating the node by itself, with the arguments of the call, gives a
\* truthy value, or a falsy one
GivesTruthy(b) ==
    LET truthy(r) == r.status = "value" /\ Truthy(r.v)
    IN  truthy(Eval(b, output.mapProperties, output.feature))

GivesFalsy(b) ==
    LET falsy(r) == r.status = "value" /\ ~Truthy(r.v)
    IN  falsy(Eval(b, output.mapProperties, output.feature))

\* the operands of the node that were evaluated were needed
LazyNode(b) ==
    CASE b.op = "&&" ->
           \A i \in 1..Len(b.args) :
               Evaluated(b.args[i]) => \A j \in 1..(i - 1) : GivesTruthy(b.args[j])
      [] b.op = "||" ->
           \A i \in 1..Len(b.args) :
               Evaluated(b.args[i]) => \A j \in 1..(i - 1) : GivesFalsy(b.args[j])
      [] b.op = "case" ->
           \A i \in 1..Len(b.args) :
               Evaluated(b.args[i]) =>
                   /\ \A j \in 1..(i - 1) : (j % 2 = 1 /\ j < i - 1) => GivesFalsy(b.args[j])
                   /\ (i % 2 = 0) => GivesTruthy(b.args[i - 1])
      [] b.op = "evaluateCurve" ->
           /\ \E i \in 1..Len(b.stopOutputs) :
                 \A j \in 1..Len(b.stopOutputs) :
                     Evaluated(b.stopOutputs[j]) => j \in {i, i + 1}
           /\ b.interpolation.name = "step" =>
                 Cardinality({j \in 1..Len(b.stopOutputs) : Evaluated(b.stopOutputs[j])}) <= 1
      [] b.op = "arrow" -> ~Evaluated(b.args[1])
      [] OTHER -> TRUE

\* the nodes below b, the stop outputs of a curve included
Operands(b) ==
    IF b.op = "literal" THEN <<>>
    ELSE IF b.op = "evaluateCurve" THEN b.args \o b.stopOutputs
    ELSE b.args

RECURSIVE Lazy(_)
Lazy(b) ==
    /\ Evaluated(b) => LazyNode(b)
    /\ \A i \in 1..Len(Operands(b)) : Lazy(Operands(b)[i])

\* C14: evaluation is lazy: && evaluates nothing after its first false
\* operand, || nothing after its first true one, case no condition after the
\* first true one and no value but the selected one, a curve no stop output
\* but the one or two of the bracketing stops; what an operand left out would
\* raise is not raised.
C14_LazyEvaluation ==
    /\ Called => Lazy(compiled.body)
    /\ (Called /\ expr = Op("&&", <<Bool(FALSE), XIs(1)>>)) =>
          output.status = "value" /\ output.v = Bool(FALSE)
    /\ (Called /\ expr = Op("||", <<Bool(TRUE), XIs(1)>>)) =>
          output.status = "value" /\ output.v = Bool(TRUE)

\* false && (x == 1) on a feature without properties: the second operand,
\* which would raise, is left out
C14_Witness ==
    /\ Called /\ expr = Op("&&", <<Bool(FALSE), XIs(1)>>)
    /\ output.feature.properties = Undefined
    /\ output.status = "value"
    /\ ~Evaluated(compiled.body.args[2])
    /\ Eval(compiled.body.args[2], output.mapProperties, output.feature).status = "RuntimeError"

\* feature.properties as the function reads it: {} when absent
Props(feature) == OrEmpty(feature.properties).o

\* C15: get(obj, key) raises an ExpressionEvaluationError when obj is null or
\* key is not in obj, and returns obj[key] otherwise; ["get", ["properties"],
\* "missing"] compiles and, on properties {}, raises 'ExpressionEvaluationError:
\* Property missing not found in object with keys: []'.
C15_GetRaisesOnMissing ==
    /\ \A k \in {"x", "missing"} :
          (Compiled /\ expr = Op("get", <<Op("properties", <<>>), Str(k)>>)) =>
              /\ compiled.result = "success"
              /\ (Called /\ HasKey(Props(output.feature), k)) =>
                    output.status = "value" /\ output.v = Lookup(Props(output.feature), k)
              /\ (Called /\ ~HasKey(Props(output.feature), k)) =>
                    /\ output.status = "RuntimeError"
                    /\ output.message =
                          "ExpressionEvaluationError: Property " \o k
                          \o " not found in object with keys: ["
                          \o JoinKeys(Props(output.feature)) \o "]"
    /\ (Called /\ expr = Op("get", <<>>)) =>
          /\ output.status = "RuntimeError"
          /\ output.message =
                "ExpressionEvaluationError: Cannot get property undefined from null object"

\* ["get", ["properties"], "missing"] called on properties {}
C15_Witness ==
    /\ Called /\ expr = Op("get", <<Op("properties", <<>>), Str("missing")>>)
    /\ output.feature.properties = Obj(<<>>)
    /\ output.message =
          "ExpressionEvaluationError: Property missing not found in object with keys: []"

\* C16: idempotence: the typed tree of a successful compilation, serialized
\* (literals to their values, calls to [name, ...children]) and compiled
\* again, gives the same result: tag, type, constancy flags and body.
C16_Idempotence ==
    Succeeded => compileExpression(serializeExpression(compiled.expression)) = compiled

\* the type a node declares for its value: that of the literal, or the
\* result type of the operator in the registry
DeclaredType(e) == IF e.literal THEN e.type ELSE DefinitionType(e.name).result

\* every at call of the tree has a first argument that is a Vector or an
\* Array whose item type matches the result type of the call
RECURSIVE AtIsTied(_)
AtIsTied(e) ==
    \/ e.literal
    \/ /\ ~e.literal
       /\ (e.name = "at" /\ e.arguments # <<>>) =>
             /\ DeclaredType(e.arguments[1]).kind \in {"vector", "array"}
             /\ matchTypeError(e.type.result, DeclaredType(e.arguments[1]).itemType,
                               EmptyMap, FALSE).error = NoError
       /\ \A i \in 1..Len(e.arguments) : AtIsTied(e.arguments[i])

\* C17: at is generic in T, its result type tied to the item type of its
\* first argument: an at call checked against the expected type R succeeds
\* only if the first argument is a Vector or Array whose item type matches R;
\* an at over a Vector<Value> is not accepted where a Number is expected.
C17_AtResultTiedToItems ==
    /\ Succeeded => AtIsTied(compiled.expression)
    /\ (Compiled /\ expr = Op("+", <<AtX(0), Num(1)>>)) => compiled.result = "error"

\* every case call of a typed tree has k >= 1 (Boolean, T) pairs and then one
\* fallback: an odd number of arguments, at least three
RECURSIVE CasesArePaired(_)
CasesArePaired(e) ==
    \/ e.literal
    \/ /\ ~e.literal
       /\ e.name = "case" => (Len(e.arguments) % 2 = 1 /\ Len(e.arguments) >= 3)
       /\ \A i \in 1..Len(e.arguments) : CasesArePaired(e.arguments[i])

\* C18: every case call that passes type checking has an odd number of
\* arguments, at least three, so that the assertion args.length === 1 of the
\* compile callback of case never fails for a type-checked call.
C18_CaseArgumentsPaired ==
    /\ Succeeded => CasesArePaired(compiled.expression)
    /\ Compiled => ~(/\ compiled.result = "throw"
                     /\ compiled.message = "AssertionError: args.length === 1")

\* names of typenames; the registry itself uses T alone
Typenames == {"T", "U"}

\* the one diagnostic of a call e whose expected result is the typename n
OneUnresolved(n, e) == Failed(<<Diagnostic(e.key, CouldNotResolve(typename(n), e))>>)

\* every call of the tree e, checked against a typename or against a lambda
\* whose result is a typename, fails with that one diagnostic
RECURSIVE FailsUnresolved(_)
FailsUnresolved(e) ==
    \/ e.literal
    \/ /\ ~e.literal
       /\ \A n \in Typenames :
             /\ typeCheckExpression(typename(n), e) = OneUnresolved(n, e)
             /\ typeCheckExpression(lambda(typename(n), <<NumberType>>), e) = OneUnresolved(n, e)
       /\ \A i \in 1..Len(e.arguments) : FailsUnresolved(e.arguments[i])

ParsedExpr == parseExpression("", expr)

\* C19: a lambda call type-checked against an expected type whose result is a
\* Typename fails with exactly one diagnostic 'Could not resolve <name>. ...'
\* keyed at that call, whatever its arguments are; compileExpression on a root
\* application of case, curve or at returns result 'error' with that diagnostic.
C19_UnresolvedTypename ==
    /\ ParsedExpr.thrown = "" => FailsUnresolved(ParsedExpr.node)
    /\ (Compiled /\ ParsedExpr.thrown = "" /\ IsCall(expr, {"case", "curve", "at"})) =>
          /\ compiled.result = "error"
          /\ compiled.errors = OneUnresolved("T", ParsedExpr.node).errors

\* a root case whose condition is a number has been compiled
C19_Witness ==
    /\ Compiled
    /\ expr = Op("case", <<Num(1), Str("a"), Str("b")>>)
    /\ compiled.result = "error"
    /\ Len(compiled.errors) = 1
    /\ compiled.errors[1].key = ""

\* the 0-based index of the last stop <= input, 0 when there is none
LastStopAtMost(stops, input) ==
    LET atMost == {i \in 1..Len(stops) : stops[i] * input.d <= input.n}
    IN  IF atMost = {} THEN 0 ELSE (CHOOSE i \in atMost : \A j \in atMost : j <= i) - 1

\* C20: findStopLessThanOrEqualTo(stops, input), for every strictly ascending
\* list of stops and every numeric input, returns the index of the last stop
\* that is <= input (that of the stop itself on an exact match, n-1 when the
\* input exceeds the last stop), or 0 if no stop is <= input.
C20_LastStopAtMost ==
    pc = "called" => output.index = LastStopAtMost(expr.stops, expr.input)

\* C21: evaluating a compiled curve terminates for every input value: the
\* loop of findStopLessThanOrEqualTo exits after finitely many iterations,
\* also when the input is not comparable to the stops (zoom undefined because
\* mapProperties is missing, or NaN from a number coercion).
C21_CurveEvaluationTerminates ==
    Called => output.status # "diverges"

\* the members of the variant of the call that match the actual type under
\* the map of the call
MatchingMembers ==
    {i \in 1..Len(Members(expr.expected)) :
        matchTypeError(Members(expr.expected)[i], expr.t, expr.typenameMap, TRUE).error = NoError}

FirstMatching == CHOOSE i \in MatchingMembers : \A j \in MatchingMembers : i <= j

\* the map as the first matching member alone leaves it
FirstMatchingMap ==
    matchTypeError(Members(expr.expected)[FirstMatching], expr.t, expr.typenameMap, TRUE).map

ExpectedResults == {NumberType, StringType, BooleanType, ValueType}

\* every binding of the map before is in the map after, unchanged
KeepsBindings(before, after) ==
    \A n \in DOMAIN before : n \in DOMAIN after /\ after[n] = before[n]

\* the type check of the call e against expected: what matching the declared
\* result has bound is still bound to the same type when the arguments have
\* been unrolled
StableIn(e, expected) ==
    LET unrolled(m) ==
            m.error = NoError =>
                KeepsBindings(m.map,
                              unrollArgs(e, e.type.args, 0, 0, <<>>, <<>>, m.map).typenameMap)
    IN  unrolled(matchTypeError(expected, e.type.result, EmptyMap, TRUE))

RECURSIVE BindingsStable(_)
BindingsStable(e) ==
    \/ e.literal
    \/ /\ ~e.literal
       /\ \A expected \in ExpectedResults : StableIn(e, expected)
       /\ \A i \in 1..Len(e.arguments) : BindingsStable(e.arguments[i])

\* C23: within the type check of one lambda call a typename binding is
\* stable: once a typename is bound in the call's typename map (T bound by
\* matching the declared result against the expected result type), no later
\* argument match or NArgs merge rebinds it to a different type.
C23_BindingsStable ==
    (Compiled /\ ParsedExpr.thrown = "") => BindingsStable(ParsedExpr.node)

\* the condition c of ["case", c, a, b] can be checked as a Boolean
CheckableAsBoolean(c) ==
    LET checkable(p) == p.thrown = "" /\ typeCheckExpression(BooleanType, p.node).errors = <<>>
    IN  checkable(parseExpression(".1.1", c))

\* C24: generic type variables are local to one operator application: a
\* condition of case whose own declared result is the typename T does not bind
\* the T of the case, so whether ["case", c, a, b] type-checks depends on c
\* only through c being checkable as Boolean (a nested case or at used as the
\* condition does not force a and b to be Boolean).
C24_TypenamesLocal ==
    \A c \in CaseConditions :
        (Compiled /\ expr = Op("string", <<Op("case", <<c, Str("a"), Str("b")>>)>>)) =>
            (compiled.result = "success" <=> CheckableAsBoolean(c))
====
